---- MODULE Spec2Model ----
(***************************************************************************)
(* Model of the HTTP server core of huji-chat: the acceptor (start), the   *)
(* worker pool (worker_thread), the per-connection session (handle_client) *)
(* and shutdown (stop), over a small operating-system model of file        *)
(* descriptors and client connections.                                     *)
(***************************************************************************)
EXTENDS Integers, Sequences, FiniteSets, TLC

VARIABLES
    \* ---- HttpServer fields (Server.hpp:49-62)
    server_fd,      \* listening descriptor, -1 when none
    thread_count,   \* size of the pool requested at construction
    thread_pool,    \* sequence of worker ids, in emplace_back order
    task_queue,     \* FIFO of client descriptors
    queue_mutex,    \* thread id holding queue_mutex, NoThread when free
    cv_waiters,     \* workers blocked inside cv.wait
    stop_server,    \* the atomic shutdown flag
    log_mutex,      \* thread id holding log_mutex, NoThread when free
    \* ---- where each thread is
    start_pc,       \* main thread: position inside start() / ~HttpServer
    new_socket,     \* start(): the descriptor accept returned
    wpc,            \* worker -> position inside worker_thread / handle_client
    client_socket,  \* worker -> descriptor it owns (-1 when none)
    cur,            \* worker -> the request/response of the current exchange
    joined,         \* workers whose std::thread has been joined
    stop_pc,        \* stop() caller -> position inside stop()
    join_i,         \* stop() caller -> index of the range-for over thread_pool
    join_end,       \* stop() caller -> end() taken when the range-for began
    stop_calls,     \* number of stop() calls the external thread has made
    cas_wins,       \* number of stop() calls whose compare-and-swap succeeded
    \* ---- operating system and clients
    fd_kind,        \* descriptor -> "free" | "sock" | "bound" | "listen" | "conn"
    fd_conn,        \* descriptor -> connection it refers to (0 when none)
    nconn,          \* connections accepted so far
    reqs_left,      \* connection -> requests its client may still send
    client_data,    \* the byte strings a client may send in one read
    terminated,     \* std::terminate was called: the process is gone
    \* ---- observation of what happened to each connection
    conn_obs        \* connection -> what was done to it (see NoObs)

vars == << server_fd, thread_count, thread_pool, task_queue, queue_mutex,
           cv_waiters, stop_server, log_mutex, start_pc, new_socket, wpc,
           client_socket, cur, joined, stop_pc, join_i, join_end, stop_calls,
           cas_wins, fd_kind, fd_conn, nconn, reqs_left, client_data, terminated,
           conn_obs >>

\* ------------------------------------------------------------------ bounds
NumWorkers == 2
MaxConns == 2
MaxReqs == 2
MaxStopCalls == 2

\* ------------------------------------------------------- threads and ids
Workers == 1..NumWorkers
Conns == 1..MaxConns
\* Descriptors 0..2 are the standard streams; the process needs one
\* descriptor for the listener and one per accepted connection.
Fds == 3..(3 + MaxConns)
MainT == NumWorkers + 1          \* the thread that runs start() and ~HttpServer
ExtT == NumWorkers + 2           \* another thread that calls stop()
StopCallers == {MainT, ExtT}
NoThread == {}

\* ------------------------------------------------- operating-system model
LowestFree == CHOOSE f \in Fds : fd_kind[f] = "free" /\ \A g \in Fds : g < f => fd_kind[g] # "free"

NoObs == [closes |-> 0, dequeues |-> 0, after_stop |-> FALSE,
          sessions |-> 0, closed_by |-> "none", responses |-> 0, logs |-> 0]

\* close(fd) called by `who` ("worker", "drain" or "stop"): the new descriptor
\* table and the new observation of the connection the descriptor refers to.
CloseKind(fd) == [fd_kind EXCEPT ![fd] = "free"]
CloseConn(fd) == [fd_conn EXCEPT ![fd] = 0]
CloseObs(fd, who) ==
    IF fd_kind[fd] = "conn"
    THEN [conn_obs EXCEPT ![fd_conn[fd]].closes = @ + 1, ![fd_conn[fd]].closed_by = who]
    ELSE conn_obs

\* ------------------------------------------------------------ start()
\* Server.cpp:66-71  server_fd = socket(...); failure returns.
StartSocket ==
    /\ ~terminated
    /\ start_pc = "socket"
    /\ \/ /\ server_fd' = LowestFree
          /\ fd_kind' = [fd_kind EXCEPT ![LowestFree] = "sock"]
          /\ start_pc' = "bind"
       \/ /\ server_fd' = -1
          /\ fd_kind' = fd_kind
          /\ start_pc' = "returned"
    /\ UNCHANGED << thread_count, thread_pool, task_queue, queue_mutex, cv_waiters,
                    stop_server, log_mutex, new_socket, wpc, client_socket, cur,
                    joined, stop_pc, join_i, join_end, stop_calls, cas_wins,
                    fd_conn, nconn, reqs_left, client_data, terminated, conn_obs >>

\* Server.cpp:83-87  bind; failure returns.  bind fails on a descriptor that
\* is not an open socket (stop() may have closed it and stored -1).
StartBind ==
    /\ ~terminated
    /\ start_pc = "bind"
    /\ \/ /\ server_fd \in Fds
          /\ fd_kind[server_fd] = "sock"
          /\ fd_kind' = [fd_kind EXCEPT ![server_fd] = "bound"]
          /\ start_pc' = "listen"
       \/ /\ fd_kind' = fd_kind
          /\ start_pc' = "returned"
    /\ UNCHANGED << server_fd, thread_count, thread_pool, task_queue, queue_mutex,
                    cv_waiters, stop_server, log_mutex, new_socket, wpc,
                    client_socket, cur, joined, stop_pc, join_i, join_end,
                    stop_calls, cas_wins, fd_conn, nconn, reqs_left, client_data,
                    terminated, conn_obs >>

\* Server.cpp:90-91  listen; its result is ignored.
StartListen ==
    /\ ~terminated
    /\ start_pc = "listen"
    /\ fd_kind' = IF server_fd \in Fds /\ fd_kind[server_fd] = "bound"
                  THEN [fd_kind EXCEPT ![server_fd] = "listen"]
                  ELSE fd_kind
    /\ start_pc' = "spawn"
    /\ UNCHANGED << server_fd, thread_count, thread_pool, task_queue, queue_mutex,
                    cv_waiters, stop_server, log_mutex, new_socket, wpc,
                    client_socket, cur, joined, stop_pc, join_i, join_end,
                    stop_calls, cas_wins, fd_conn, nconn, reqs_left, client_data,
                    terminated, conn_obs >>

\* Server.cpp:94-97  one iteration of the loop that creates the workers.
StartSpawn ==
    /\ ~terminated
    /\ start_pc = "spawn"
    /\ IF Len(thread_pool) < thread_count
       THEN /\ thread_pool' = Append(thread_pool, Len(thread_pool) + 1)
            /\ wpc' = [wpc EXCEPT ![Len(thread_pool) + 1] = "check"]
            /\ start_pc' = start_pc
       ELSE /\ start_pc' = "loop"
            /\ UNCHANGED << thread_pool, wpc >>
    /\ UNCHANGED << server_fd, thread_count, task_queue, queue_mutex, cv_waiters,
                    stop_server, log_mutex, new_socket, client_socket, cur, joined,
                    stop_pc, join_i, join_end, stop_calls, cas_wins, fd_kind,
                    fd_conn, nconn, reqs_left, client_data, terminated, conn_obs >>

\* Server.cpp:101  while (!stop_server.load())
StartLoop ==
    /\ ~terminated
    /\ start_pc = "loop"
    /\ start_pc' = IF stop_server THEN "returned" ELSE "accept"
    /\ UNCHANGED << server_fd, thread_count, thread_pool, task_queue, queue_mutex,
                    cv_waiters, stop_server, log_mutex, new_socket, wpc,
                    client_socket, cur, joined, stop_pc, join_i, join_end,
                    stop_calls, cas_wins, fd_kind, fd_conn, nconn, reqs_left,
                    client_data, terminated, conn_obs >>

\* Server.cpp:104  accept returns a new connection: only on a listening
\* descriptor, when a client connects.
StartAcceptOk ==
    /\ ~terminated
    /\ start_pc = "accept"
    /\ server_fd \in Fds
    /\ fd_kind[server_fd] = "listen"
    /\ nconn + 1 \in DOMAIN reqs_left
    /\ nconn' = nconn + 1
    /\ new_socket' = LowestFree
    /\ fd_kind' = [fd_kind EXCEPT ![LowestFree] = "conn"]
    /\ fd_conn' = [fd_conn EXCEPT ![LowestFree] = nconn + 1]
    /\ start_pc' = "push"
    /\ UNCHANGED << server_fd, thread_count, thread_pool, task_queue, queue_mutex,
                    cv_waiters, stop_server, log_mutex, wpc, client_socket, cur,
                    joined, stop_pc, join_i, join_end, stop_calls, cas_wins,
                    reqs_left, client_data, terminated, conn_obs >>

\* Server.cpp:104,116-120  accept fails (interrupted, aborted connection, or
\* the descriptor was closed by stop()); the loop ends only if stop_server.
StartAcceptFail ==
    /\ ~terminated
    /\ start_pc = "accept"
    /\ new_socket' = -1
    /\ start_pc' = IF stop_server THEN "returned" ELSE "loop"
    /\ UNCHANGED << server_fd, thread_count, thread_pool, task_queue, queue_mutex,
                    cv_waiters, stop_server, log_mutex, wpc, client_socket, cur,
                    joined, stop_pc, join_i, join_end, stop_calls, cas_wins,
                    fd_kind, fd_conn, nconn, reqs_left, client_data, terminated,
                    conn_obs >>

\* Fault: the accepted descriptor is pushed twice.
StartPushTwice ==
    /\ ~terminated
    /\ start_pc = "push"
    /\ queue_mutex = NoThread
    /\ task_queue' = Append(Append(task_queue, new_socket), new_socket)
    /\ start_pc' = "notify"
    /\ UNCHANGED << server_fd, thread_count, thread_pool, queue_mutex, cv_waiters,
                    stop_server, log_mutex, new_socket, wpc, client_socket, cur, joined,
                    stop_pc, join_i, join_end, stop_calls, cas_wins, fd_kind, fd_conn,
                    nconn, reqs_left, client_data, terminated, conn_obs >>

\* Server.cpp:109-112  lock_guard; task_queue.push(new_socket); unlock.
StartPush ==
    /\ ~terminated
    /\ start_pc = "push"
    /\ queue_mutex = NoThread
    /\ task_queue' = Append(task_queue, new_socket)
    /\ start_pc' = "notify"
    /\ UNCHANGED << server_fd, thread_count, thread_pool, queue_mutex, cv_waiters,
                    stop_server, log_mutex, new_socket, wpc, client_socket, cur,
                    joined, stop_pc, join_i, join_end, stop_calls, cas_wins,
                    fd_kind, fd_conn, nconn, reqs_left, client_data, terminated,
                    conn_obs >>

\* An acceptor that pushes without notifying.
StartNoNotify ==
    /\ ~terminated
    /\ start_pc = "notify"
    /\ start_pc' = "loop"
    /\ UNCHANGED << server_fd, thread_count, thread_pool, task_queue, queue_mutex,
                    cv_waiters, stop_server, log_mutex, new_socket, wpc, client_socket,
                    cur, joined, stop_pc, join_i, join_end, stop_calls, cas_wins, fd_kind,
                    fd_conn, nconn, reqs_left, client_data, terminated, conn_obs >>

\* Server.cpp:114  cv.notify_one(): wakes one blocked worker, if any.
StartNotify ==
    /\ ~terminated
    /\ start_pc = "notify"
    /\ \/ /\ cv_waiters = {}
          /\ UNCHANGED << cv_waiters, wpc >>
       \/ \E w \in cv_waiters :
             /\ cv_waiters' = cv_waiters \ {w}
             /\ wpc' = [wpc EXCEPT ![w] = "check"]
    /\ start_pc' = "loop"
    /\ UNCHANGED << server_fd, thread_count, thread_pool, task_queue, queue_mutex,
                    stop_server, log_mutex, new_socket, client_socket, cur, joined,
                    stop_pc, join_i, join_end, stop_calls, cas_wins, fd_kind,
                    fd_conn, nconn, reqs_left, client_data, terminated, conn_obs >>

\* main.cpp:284-286, Server.cpp:53-56  start() has returned; the server object
\* is destroyed, and its destructor calls stop().
Destructor ==
    /\ ~terminated
    /\ start_pc = "returned"
    /\ stop_pc[MainT] = "idle"
    /\ start_pc' = "dtor"
    /\ stop_pc' = [stop_pc EXCEPT ![MainT] = "cas"]
    /\ UNCHANGED << server_fd, thread_count, thread_pool, task_queue, queue_mutex,
                    cv_waiters, stop_server, log_mutex, new_socket, wpc,
                    client_socket, cur, joined, join_i, join_end, stop_calls,
                    cas_wins, fd_kind, fd_conn, nconn, reqs_left, client_data,
                    terminated, conn_obs >>

\* ------------------------------------------------------------- std::string
\* Strings are TLA+ strings; positions are 0-based as in the source.
Npos == 0 - 1                     \* std::string::npos; npos + 1 wraps to 0
Min(a, b) == IF a < b THEN a ELSE b
CharAt(s, i) == SubSeq(s, i + 1, i + 1)
\* s.substr(pos) and s.substr(pos, n); n = Npos takes the rest.
SubstrFrom(s, pos) == SubSeq(s, pos + 1, Len(s))
Substr(s, pos, n) == IF n = Npos THEN SubstrFrom(s, pos) ELSE SubSeq(s, pos + 1, Min(Len(s), pos + n))
MatchAt(s, pat, i) == i + Len(pat) <= Len(s) /\ SubSeq(s, i + 1, i + Len(pat)) = pat
\* s.find(pat, from)
Find(s, pat, from) ==
    LET hits == {i \in from..(Len(s) - Len(pat)) : MatchAt(s, pat, i)}
    IN IF hits = {} THEN Npos ELSE CHOOSE i \in hits : \A j \in hits : i <= j
Contains(s, pat) == Find(s, pat, 0) # Npos

UpperCase == "ABCDEFGHIJKLMNOPQRSTUVWXYZ"
LowerCase == "abcdefghijklmnopqrstuvwxyz"
\* std::tolower on one character
ToLower(c) ==
    LET hits == {i \in 1..Len(UpperCase) : SubSeq(UpperCase, i, i) = c}
    IN IF hits = {} THEN c ELSE LET i == CHOOSE i \in hits : TRUE IN SubSeq(LowerCase, i, i)
\* Parsers.cpp:8-11
ci_char_compare(a, b) == ToLower(a) = ToLower(b)

\* Parsers.cpp:158-176
extract_header_value(full_data, max_pos, target) ==
    LET hits == {i \in 0..(max_pos - Len(target)) :
                    \A k \in 0..(Len(target) - 1) :
                        ci_char_compare(CharAt(full_data, i + k), CharAt(target, k))}
    IN IF hits = {} THEN ""
       ELSE LET it0 == (CHOOSE i \in hits : \A j \in hits : i <= j) + Len(target)
                \* skip spaces and colons
                stops == {i \in it0..(max_pos - 1) : CharAt(full_data, i) \notin {" ", ":"}}
                it == IF stops = {} THEN max_pos ELSE CHOOSE i \in stops : \A j \in stops : i <= j
                crs == {i \in it..(max_pos - 1) : CharAt(full_data, i) = "\r"}
                line_end == IF crs = {} THEN max_pos ELSE CHOOSE i \in crs : \A j \in crs : i <= j
            IN SubSeq(full_data, it + 1, line_end)

\* ------------------------------------------------- std::stoull, std::stoul
\* Numbers of 64 bits do not fit the integers used here: they are kept as digit strings.
MAX_PAYLOAD_SIZE == 10485760
MaxPayloadDigits == "10485760"
UllongMaxDigits == "18446744073709551615"       \* 2^64 - 1
\* 2^64 - MAX_PAYLOAD_SIZE: the magnitudes from here up negate, modulo 2^64,
\* to a value that is at most MAX_PAYLOAD_SIZE.
WrapSmallDigits == "18446744073699065856"
DecDigits == "0123456789"
HexDigits == "0123456789abcdef"
IsSpace(c) == c \in {" ", "\t", "\n", "\r", "\f"}
IsDigit(c) == \E i \in 1..Len(DecDigits) : SubSeq(DecDigits, i, i) = c
DigitVal(c) == (CHOOSE i \in 1..Len(DecDigits) : SubSeq(DecDigits, i, i) = c) - 1
IsHexDigit(c) == \E i \in 1..Len(HexDigits) : SubSeq(HexDigits, i, i) = ToLower(c)
HexVal(c) == (CHOOSE i \in 1..Len(HexDigits) : SubSeq(HexDigits, i, i) = ToLower(c)) - 1

\* number of leading characters of s (from 0-based position i) satisfying P
RECURSIVE SkipSpaces(_, _)
SkipSpaces(s, i) == IF i < Len(s) /\ IsSpace(CharAt(s, i)) THEN SkipSpaces(s, i + 1) ELSE i
RECURSIVE SkipDigits(_, _)
SkipDigits(s, i) == IF i < Len(s) /\ IsDigit(CharAt(s, i)) THEN SkipDigits(s, i + 1) ELSE i
RECURSIVE StripZeros(_)
StripZeros(d) == IF Len(d) > 1 /\ CharAt(d, 0) = "0" THEN StripZeros(SubstrFrom(d, 1)) ELSE d

\* a > b for digit strings without leading zeros
RECURSIVE LexGreater(_, _)
LexGreater(a, b) ==
    IF a = "" THEN FALSE
    ELSE IF DigitVal(CharAt(a, 0)) # DigitVal(CharAt(b, 0))
         THEN DigitVal(CharAt(a, 0)) > DigitVal(CharAt(b, 0))
         ELSE LexGreater(SubstrFrom(a, 1), SubstrFrom(b, 1))
DigitsGreater(a, b) == Len(a) > Len(b) \/ (Len(a) = Len(b) /\ LexGreater(a, b))
RECURSIVE DigitsToInt(_)
DigitsToInt(d) == IF d = "" THEN 0 ELSE 10 * DigitsToInt(SubSeq(d, 1, Len(d) - 1)) + DigitVal(CharAt(d, Len(d) - 1))

\* std::stoull(str) (strtoull, base 10): leading white space, an optional
\* sign, then digits.  err is "invalid_argument" when there is no digit,
\* "out_of_range" when the magnitude exceeds 2^64 - 1; otherwise the value
\* is (neg ? 2^64 - digits : digits) modulo 2^64.
stoull(str) ==
    LET i0 == SkipSpaces(str, 0)
        signed == i0 < Len(str) /\ CharAt(str, i0) \in {"+", "-"}
        neg == signed /\ CharAt(str, i0) = "-"
        i1 == IF signed THEN i0 + 1 ELSE i0
        i2 == SkipDigits(str, i1)
        digits == StripZeros(SubSeq(str, i1 + 1, i2))
    IN IF i2 = i1 THEN [err |-> "invalid_argument", neg |-> FALSE, digits |-> "0"]
       ELSE IF DigitsGreater(digits, UllongMaxDigits)
            THEN [err |-> "out_of_range", neg |-> FALSE, digits |-> "0"]
            ELSE [err |-> "none", neg |-> neg /\ digits # "0", digits |-> digits]

\* value > MAX_PAYLOAD_SIZE for a size_t value returned by stoull
ExceedsMaxPayload(v) ==
    IF v.neg THEN DigitsGreater(WrapSmallDigits, v.digits)
    ELSE DigitsGreater(v.digits, MaxPayloadDigits)
\* the value as an integer; used only when it is at most MAX_PAYLOAD_SIZE.
\* A negated magnitude in that range is 18446744073|t with t the last nine
\* digits, and 2^64 - magnitude = 709551616 - t.
SizeValue(v) ==
    IF v.neg THEN 709551616 - DigitsToInt(SubSeq(v.digits, 12, 20))
    ELSE DigitsToInt(v.digits)

\* std::stoul(hex, nullptr, 16) on the two characters after '%', cast to
\* char: err is "invalid_argument" when no hex digit can be parsed.
stoul16(hex) ==
    LET i0 == SkipSpaces(hex, 0)
        signed == i0 < Len(hex) /\ CharAt(hex, i0) \in {"+", "-"}
        neg == signed /\ CharAt(hex, i0) = "-"
        i1 == IF signed THEN i0 + 1 ELSE i0
        d1 == i1 < Len(hex) /\ IsHexDigit(CharAt(hex, i1))
        d2 == d1 /\ i1 + 1 < Len(hex) /\ IsHexDigit(CharAt(hex, i1 + 1))
        mag == IF d2 THEN 16 * HexVal(CharAt(hex, i1)) + HexVal(CharAt(hex, i1 + 1))
               ELSE IF d1 THEN HexVal(CharAt(hex, i1)) ELSE 0
    IN IF ~d1 THEN [err |-> "invalid_argument", byte |-> 0]
       ELSE [err |-> "none", byte |-> IF neg THEN (256 - mag) % 256 ELSE mag]

\* the character with a given byte value (printable ASCII, tab, CR, LF);
\* other bytes have no character in the notation and are shown as "?".
AsciiLow == " !\"#$%&'()*+,-./0123456789:;<=>?@ABCDEFGHIJKLMNOPQRSTUVWXYZ[\\]^_"
AsciiHigh == "abcdefghijklmnopqrstuvwxyz{|}~"
ByteChar(b) ==
    IF b >= 32 /\ b <= 95 THEN SubSeq(AsciiLow, b - 31, b - 31)
    ELSE IF b >= 97 /\ b <= 126 THEN SubSeq(AsciiHigh, b - 96, b - 96)
    ELSE IF b = 9 THEN "\t" ELSE IF b = 10 THEN "\n" ELSE IF b = 13 THEN "\r" ELSE "?"

\* Decoding that leaves '+' as it is.
RECURSIVE url_decode_from_NoPlus(_, _, _)
url_decode_from_NoPlus(str, i, decoded) ==
    IF i >= Len(str) THEN [err |-> "none", str |-> decoded]
    ELSE IF CharAt(str, i) = "%" /\ i + 2 < Len(str)
         THEN LET c == stoul16(Substr(str, i + 1, 2))
              IN IF c.err # "none" THEN [err |-> c.err, str |-> decoded]
                 ELSE url_decode_from_NoPlus(str, i + 3, decoded \o ByteChar(c.byte))
    ELSE url_decode_from_NoPlus(str, i + 1, decoded \o CharAt(str, i))

\* Parsers.cpp:47-64  The result is [err, str]; err = "invalid_argument"
\* when std::stoul throws.
RECURSIVE url_decode_from(_, _, _)
url_decode_from(str, i, decoded) ==
    IF i >= Len(str) THEN [err |-> "none", str |-> decoded]
    ELSE IF CharAt(str, i) = "+" THEN url_decode_from(str, i + 1, decoded \o " ")
    ELSE IF CharAt(str, i) = "%" /\ i + 2 < Len(str)
         THEN LET c == stoul16(Substr(str, i + 1, 2))
              IN IF c.err # "none" THEN [err |-> c.err, str |-> decoded]
                 ELSE url_decode_from(str, i + 3, decoded \o ByteChar(c.byte))
    ELSE url_decode_from(str, i + 1, decoded \o CharAt(str, i))
url_decode(str) == url_decode_from(str, 0, "")

\* std::getline(ss, segment, '&') until it fails
RECURSIVE Segments(_)
Segments(str) ==
    IF str = "" THEN << >>
    ELSE LET amp == Find(str, "&", 0)
         IN IF amp = Npos THEN << str >>
            ELSE << Substr(str, 0, amp) >> \o Segments(SubstrFrom(str, amp + 1))

\* std::map<string,string>: params[key] = value
NoParams == [k \in {} |-> ""]
MapPut(m, key, value) == [k \in (DOMAIN m) \cup {key} |-> IF k = key THEN value ELSE m[k]]

\* Parsers.cpp:33-43  query parameters, no decoding
RECURSIVE QueryParams(_, _)
QueryParams(segs, params) ==
    IF segs = << >> THEN params
    ELSE LET segment == Head(segs)
             eqPos == Find(segment, "=", 0)
         IN QueryParams(Tail(segs),
                IF eqPos = Npos THEN params
                ELSE MapPut(params, Substr(segment, 0, eqPos), SubstrFrom(segment, eqPos + 1)))

\* Parsers.cpp:14-45
parse_url(url) ==
    LET pos == Find(url, "?", 0)
        path0 == IF pos = Npos THEN url ELSE Substr(url, 0, pos)
        query == IF pos = Npos THEN "" ELSE SubstrFrom(url, pos + 1)
        path1 == IF path0 = "/" THEN "/index.html" ELSE path0
        path2 == IF path1 # "" /\ CharAt(path1, 0) = "/" THEN SubstrFrom(path1, 1) ELSE path1
    IN [path |-> path2, query |-> query, params |-> QueryParams(Segments(query), NoParams),
        method |-> "", body |-> "", keep_alive |-> TRUE]

\* Parsers.cpp:66-78  The result is [err, params].
RECURSIVE FormParams(_, _)
FormParams(segs, params) ==
    IF segs = << >> THEN [err |-> "none", params |-> params]
    ELSE LET segment == Head(segs)
             eqPos == Find(segment, "=", 0)
         IN IF eqPos = Npos THEN FormParams(Tail(segs), params)
            ELSE LET key == url_decode(Substr(segment, 0, eqPos))
                     value == url_decode(SubstrFrom(segment, eqPos + 1))
                 IN IF key.err # "none" THEN [err |-> key.err, params |-> params]
                    ELSE IF value.err # "none" THEN [err |-> value.err, params |-> params]
                    ELSE FormParams(Tail(segs), MapPut(params, key.str, value.str))
parse_form_body(form_body, params) == FormParams(Segments(form_body), params)

\* Parsers.cpp:113-125  the inner loop over a quoted value: [i, value] with i
\* at the closing quote, or at the end of the body.
RECURSIVE JsonString(_, _, _)
JsonString(body, i, value) ==
    IF i >= Len(body) THEN [i |-> i, value |-> value]
    ELSE IF CharAt(body, i) = "\\" /\ i + 1 < Len(body) /\ CharAt(body, i + 1) = "\""
         THEN JsonString(body, i + 2, value \o "\"")
    ELSE IF CharAt(body, i) = "\"" THEN [i |-> i, value |-> value]
    ELSE JsonString(body, i + 1, value \o CharAt(body, i))

\* Parsers.cpp:80-132
RECURSIVE JsonScan(_, _, _, _, _, _)
JsonScan(body, i, state, currentKey, currentValue, params) ==
    IF i >= Len(body) THEN params
    ELSE LET c == CharAt(body, i)
         IN CASE state = "SEARCHING" ->
                    JsonScan(body, i + 1, IF c = "\"" THEN "KEY" ELSE state,
                             currentKey, currentValue, params)
              [] state = "KEY" ->
                    IF c = "\"" THEN JsonScan(body, i + 1, "VALUE", currentKey, currentValue, params)
                    ELSE JsonScan(body, i + 1, state, currentKey \o c, currentValue, params)
              [] state = "VALUE" ->
                    IF c = ":" \/ IsSpace(c)
                    THEN JsonScan(body, i + 1, state, currentKey, currentValue, params)
                    ELSE IF c = "," \/ c = "}"
                    THEN IF currentKey # ""
                         THEN JsonScan(body, i + 1, "SEARCHING", "", "",
                                       MapPut(params, currentKey, currentValue))
                         ELSE JsonScan(body, i + 1, "SEARCHING", currentKey, currentValue, params)
                    ELSE IF c = "\""
                    THEN LET q == JsonString(body, i + 1, currentValue)
                         IN JsonScan(body, q.i + 1, state, currentKey, q.value, params)
                    ELSE JsonScan(body, i + 1, state, currentKey, currentValue \o c, params)
parse_json_body(body, params) == JsonScan(body, 0, "SEARCHING", "", "", params)

\* Parsers.cpp:134-156
get_mime_type(path) ==
    LET dots == {i \in 0..(Len(path) - 1) : CharAt(path, i) = "."}
    IN IF dots = {} THEN "text/plain"
       ELSE LET ext == SubstrFrom(path, CHOOSE i \in dots : \A j \in dots : j <= i)
            IN CASE ext = ".html" -> "text/html"
                 [] ext = ".css" -> "text/css"
                 [] ext = ".js" -> "application/javascript"
                 [] ext = ".jpg" -> "image/jpeg"
                 [] ext = ".jpeg" -> "image/jpeg"
                 [] ext = ".png" -> "image/png"
                 [] OTHER -> "text/plain"

\* ------------------------------------------------------------- Response
\* Common.hpp:32-38  a default-constructed Response
DefaultResponse ==
    [status_code |-> 200, status_text |-> "OK", content_type |-> "text/html",
     body |-> "", headers |-> NoParams, keep_alive |-> TRUE]

\* the byte value of a character, and std::string's operator<
CharCode(c) ==
    IF \E i \in 1..Len(AsciiLow) : SubSeq(AsciiLow, i, i) = c
    THEN 31 + (CHOOSE i \in 1..Len(AsciiLow) : SubSeq(AsciiLow, i, i) = c)
    ELSE IF \E i \in 1..Len(AsciiHigh) : SubSeq(AsciiHigh, i, i) = c
    THEN 96 + (CHOOSE i \in 1..Len(AsciiHigh) : SubSeq(AsciiHigh, i, i) = c)
    ELSE IF c = "\t" THEN 9 ELSE IF c = "\n" THEN 10 ELSE IF c = "\r" THEN 13 ELSE 63
RECURSIVE StrLess(_, _)
StrLess(a, b) ==
    IF b = "" THEN FALSE
    ELSE IF a = "" THEN TRUE
    ELSE IF CharAt(a, 0) # CharAt(b, 0) THEN CharCode(CharAt(a, 0)) < CharCode(CharAt(b, 0))
    ELSE StrLess(SubstrFrom(a, 1), SubstrFrom(b, 1))

\* Common.cpp:16-18  the custom headers, in the map's (sorted) key order
RECURSIVE HeaderLines(_, _)
HeaderLines(headers, keys) ==
    IF keys = {} THEN ""
    ELSE LET key == CHOOSE k \in keys : \A j \in keys \ {k} : StrLess(k, j)
         IN key \o ": " \o headers[key] \o "\r\n" \o HeaderLines(headers, keys \ {key})

\* Serialization whose Content-Length also counts the blank line.
to_string_CountsBlankLine(res) ==
    "HTTP/1.1 " \o ToString(res.status_code) \o " " \o res.status_text \o "\r\n"
    \o "Content-Type: " \o res.content_type \o "\r\n"
    \o "Content-Length: " \o ToString(Len(res.body) + 2) \o "\r\n"
    \o "Connection: " \o (IF res.keep_alive THEN "keep-alive" ELSE "close") \o "\r\n"
    \o HeaderLines(res.headers, DOMAIN res.headers)
    \o "\r\n" \o res.body

\* Common.cpp:4-24
to_string(res) ==
    "HTTP/1.1 " \o ToString(res.status_code) \o " " \o res.status_text \o "\r\n"
    \o "Content-Type: " \o res.content_type \o "\r\n"
    \o "Content-Length: " \o ToString(Len(res.body)) \o "\r\n"
    \o "Connection: " \o (IF res.keep_alive THEN "keep-alive" ELSE "close") \o "\r\n"
    \o HeaderLines(res.headers, DOMAIN res.headers)
    \o "\r\n" \o res.body

\* --------------------------------------------------- handlers and files
\* main.cpp:279-281  the route table
Routes == {"greet", "status", "chat"}
\* The files under public/ (the directory is not part of the sources).
PublicFiles == [f \in {"index.html", "style.css"} |->
                  IF f = "index.html" THEN "<html>home</html>" ELSE "body{}"]
\* The time the handlers read from the system clock.
ClockText == "2026-01-01 00:00:00"

\* main.cpp:108-113
handle_greet(req) ==
    LET name == IF "name" \in DOMAIN req.params THEN req.params["name"] ELSE "Guest"
    IN [DefaultResponse EXCEPT !.body = "<h1>Hello, " \o name \o "!</h1>"]

\* main.cpp:118-131
handle_status(req) ==
    [DefaultResponse EXCEPT !.body = "<h1>Server Status</h1>" \o "<p>Current Time: "
                                     \o ClockText \o "</p>" \o "<p>Status: Healthy</p>"]

\* main.cpp:136-258  The response of the chat handler: the redirect of a POST,
\* or the page of a GET (the markup of the page is abbreviated to its title).
handle_chat(req) ==
    IF req.method = "POST"
    THEN [DefaultResponse EXCEPT !.status_code = 303, !.status_text = "See Other",
                                 !.headers = MapPut(NoParams, "Location", "/chat")]
    ELSE [DefaultResponse EXCEPT !.body = "<title>Huji-Chat | Portfolio Showcase</title>"]

\* Server.cpp:252  routes.at(req.path)(req)
RouteHandler(req) ==
    CASE req.path = "greet" -> handle_greet(req)
      [] req.path = "status" -> handle_status(req)
      [] req.path = "chat" -> handle_chat(req)

\* A resolver that refuses only a path that starts by leaving the root.
handle_static_file_EscapeOnly(requested_path) ==
    IF MatchAt(requested_path, "../", 0)
    THEN [res |-> [DefaultResponse EXCEPT !.status_code = 403, !.status_text = "Forbidden",
                       !.body = "<h1>403 Forbidden: Directory traversal detected</h1>"],
          opened |-> FALSE]
    ELSE IF requested_path \in DOMAIN PublicFiles
    THEN [res |-> [DefaultResponse EXCEPT !.body = PublicFiles[requested_path],
                       !.content_type = get_mime_type("public/" \o requested_path)],
          opened |-> TRUE]
    ELSE [res |-> [DefaultResponse EXCEPT !.status_code = 404, !.status_text = "Not Found",
                       !.body = "<h1>404: File Not Found</h1>"],
          opened |-> TRUE]

\* Server.cpp:292-329  The result is [res, opened]: opened tells whether the
\* resolver tried to open a file.
handle_static_file(requested_path) ==
    IF Contains(requested_path, "..")
    THEN [res |-> [DefaultResponse EXCEPT !.status_code = 403, !.status_text = "Forbidden",
                       !.body = "<h1>403 Forbidden: Directory traversal detected</h1>"],
          opened |-> FALSE]
    ELSE IF requested_path \in DOMAIN PublicFiles
    THEN [res |-> [DefaultResponse EXCEPT !.body = PublicFiles[requested_path],
                       !.content_type = get_mime_type("public/" \o requested_path)],
          opened |-> TRUE]
    ELSE [res |-> [DefaultResponse EXCEPT !.status_code = 404, !.status_text = "Not Found",
                       !.body = "<h1>404: File Not Found</h1>"],
          opened |-> TRUE]

\* ----------------------------------------------- handle_client, one exchange
MAX_READ_BUFFER == 30000
CHUNK_BUFFER_SIZE == 4096
HTTP_DELIM == "\r\n\r\n"
PUBLIC_DIR == "public/"
DEFAULT_INDEX == "index.html"
HDR_CONNECTION == "Connection:"
HDR_CONTENT_LEN == "Content-Length:"
HDR_CONTENT_TYPE == "Content-Type:"
MIME_URLENCODED == "application/x-www-form-urlencoded"
MIME_JSON == "application/json"

\* the exchange a worker holds when it is not handling a request
NoExchange ==
    [outcome |-> "none", method |-> "", path |-> "", params |-> NoParams, body |-> "",
     conn_header |-> "", content_len_str |-> "", req_keep_alive |-> TRUE,
     res |-> DefaultResponse, raw |-> "", extra_reads |-> 0,
     dispatch |-> "none", opened |-> FALSE, sent |-> 0,
     \* observation: the bytes of the first read, the calls dispatch made, and
     \* the response as it was before finalization
     request |-> "", handler_calls |-> 0, static_calls |-> 0,
     built |-> DefaultResponse]

\* Server.cpp:182  does the Connection header ask to close?
WantsClose(conn_header) == Contains(conn_header, "close") \/ Contains(conn_header, "Close")

\* Normalization that maps to the default document but keeps the prefix.
NormalizePathKeepsPrefix(path) ==
    IF path = "" \/ path = "/" \/ path = "public" \/ path = PUBLIC_DIR
    THEN DEFAULT_INDEX ELSE path

\* Server.cpp:243-247  the routing key
NormalizePath(path) ==
    LET p1 == IF path = "" \/ path = "/" \/ path = "public" \/ path = PUBLIC_DIR
              THEN DEFAULT_INDEX ELSE path
    IN IF Len(p1) >= Len(PUBLIC_DIR) /\ Substr(p1, 0, Len(PUBLIC_DIR)) = PUBLIC_DIR
       THEN SubstrFrom(p1, Len(PUBLIC_DIR)) ELSE p1

\* Server.cpp:208-220  the number of read calls the body loop issues when
\* `need` bytes are missing and the client delivers `k` of them before a read
\* returns <= 0 (each read asks for at most CHUNK_BUFFER_SIZE bytes).
BodyReads(need, k) ==
    IF need <= 0 THEN 0
    ELSE (k + CHUNK_BUFFER_SIZE - 1) \div CHUNK_BUFFER_SIZE + (IF k < need THEN 1 ELSE 0)

\* Server.cpp:229-240  body decoding of a POST: [err, params]
DecodeBody(method, contentType, body, params) ==
    IF method # "POST" THEN [err |-> "none", params |-> params]
    ELSE IF Contains(contentType, MIME_URLENCODED) THEN parse_form_body(body, params)
    ELSE IF Contains(contentType, MIME_JSON)
         THEN [err |-> "none", params |-> parse_json_body(body, params)]
    ELSE [err |-> "none", params |-> params]

\* Finalization that also discards the additional headers.
FinalizeDropHeaders(res, req_keep_alive) ==
    [res EXCEPT !.keep_alive = req_keep_alive /\ res.status_code < 400, !.headers = NoParams]

\* Finalization without the rule for status codes >= 400.
FinalizeNoErrorClose(res, req_keep_alive) == [res EXCEPT !.keep_alive = req_keep_alive]

\* Server.cpp:261-265  response finalization and serialization
Finalize(res, req_keep_alive) ==
    LET r1 == [res EXCEPT !.keep_alive = req_keep_alive]
    IN IF r1.status_code >= 400 THEN [r1 EXCEPT !.keep_alive = FALSE] ELSE r1

\* Server.cpp:172-175  method and raw URL from the first line
SplitRequestLine(requestData, first_space) ==
    LET second_space == Find(requestData, " ", first_space + 1)
    IN [method |-> Substr(requestData, 0, first_space),
        rawUrl |-> Substr(requestData, first_space + 1,
                          IF second_space = Npos THEN Npos ELSE second_space - (first_space + 1))]

\* Server.cpp:208-221  the body loop: `rest` are the body bytes the client
\* sends after the first read, k how many of them arrive before a read
\* returns <= 0.  The result is the grown requestData and the reads issued.
ReadBody(requestData, rest, k, body_pos, content_length) ==
    LET need == content_length - (Len(requestData) - (body_pos + 4))
    IN [data |-> requestData \o SubSeq(rest, 1, IF need > 0 THEN Min(k, need) ELSE 0),
        reads |-> BodyReads(need, IF need > 0 THEN Min(k, need) ELSE 0)]

\* Server.cpp:261-265  the finalized response and its bytes
Respond(x, res0) ==
    [x EXCEPT !.outcome = "respond", !.built = res0,
              !.res = Finalize(res0, x.req_keep_alive),
              !.raw = to_string(Finalize(res0, x.req_keep_alive))]

\* Server.cpp:256  fallback to the file system
RespondStatic(x, static) ==
    Respond([x EXCEPT !.dispatch = "static", !.opened = static.opened,
                      !.static_calls = @ + 1], static.res)

\* Dispatch that falls through to the file system after a route hit.
RouteFallsThrough(x, req) ==
    IF req.path \in Routes
    THEN RespondStatic([x EXCEPT !.dispatch = "route", !.handler_calls = @ + 1],
                       handle_static_file(req.path))
    ELSE RespondStatic(x, handle_static_file(req.path))

\* Server.cpp:250-257  dispatch on the routing key
Route(x, req) ==
    IF req.path \in Routes
    THEN Respond([x EXCEPT !.dispatch = "route", !.handler_calls = @ + 1], RouteHandler(req))
    ELSE RespondStatic(x, handle_static_file(req.path))

\* Server.cpp:226-247  body decoding (which may throw) and path normalization
Decoded(x, req0, decoded) ==
    IF decoded.err # "none" THEN [x EXCEPT !.outcome = "throw"]
    ELSE Route([x EXCEPT !.params = decoded.params, !.path = NormalizePath(req0.path)],
               [req0 EXCEPT !.method = x.method, !.keep_alive = x.req_keep_alive,
                            !.body = x.body, !.params = decoded.params,
                            !.path = NormalizePath(req0.path)])

\* Server.cpp:226-240
Dispatch(x, req0, fullData, body_pos) ==
    Decoded(x, req0,
            DecodeBody(x.method, extract_header_value(fullData, body_pos, HDR_CONTENT_TYPE),
                       x.body, req0.params))

\* The body taken as everything after the delimiter, not cut to content_length.
WithBodyUncut(x, req0, body_pos, content_length, rb) ==
    Dispatch([x EXCEPT !.body = SubstrFrom(rb.data, body_pos + 4),
                       !.extra_reads = rb.reads],
             req0, rb.data, body_pos)

\* Server.cpp:205-222  the body is read and cut to content_length
WithBody(x, req0, body_pos, content_length, rb) ==
    Dispatch([x EXCEPT !.body = Substr(rb.data, body_pos + 4, content_length),
                       !.extra_reads = rb.reads],
             req0, rb.data, body_pos)

\* Server.cpp:194-223  std::stoull may throw; an oversized length is answered 413
WithLength(x, req0, requestData, rest, k, body_pos, parsed) ==
    IF parsed.err # "none" THEN [x EXCEPT !.outcome = "throw"]
    ELSE IF ExceedsMaxPayload(parsed)
    THEN Respond(x, [DefaultResponse EXCEPT
                        !.status_code = 413, !.status_text = "Payload Too Large",
                        !.content_type = "text/plain", !.body = "Payload exceeds limits."])
    ELSE WithBody(x, req0, body_pos, SizeValue(parsed),
                  ReadBody(requestData, rest, k, body_pos, SizeValue(parsed)))

\* Server.cpp:180-192
WithHeaders(req0, method, requestData, rest, k, body_pos, conn_header, content_len_str) ==
    IF content_len_str = ""
    THEN Dispatch([NoExchange EXCEPT !.request = requestData,
                                     !.method = method, !.path = req0.path,
                                     !.conn_header = conn_header,
                                     !.req_keep_alive = ~WantsClose(conn_header) /\ req0.keep_alive],
                  req0, requestData, body_pos)
    ELSE WithLength([NoExchange EXCEPT !.request = requestData,
                                       !.method = method, !.path = req0.path,
                                       !.conn_header = conn_header,
                                       !.content_len_str = content_len_str,
                                       !.req_keep_alive = ~WantsClose(conn_header) /\ req0.keep_alive],
                    req0, requestData, rest, k, body_pos, stoull(content_len_str))

\* Server.cpp:172-188
Parsed(requestData, rest, k, body_pos, line) ==
    WithHeaders(parse_url(line.rawUrl), line.method, requestData, rest, k, body_pos,
                extract_header_value(requestData, body_pos, HDR_CONNECTION),
                extract_header_value(requestData, body_pos, HDR_CONTENT_LEN))

\* Server.cpp:164-265  One iteration of the keep-alive loop from the bytes of
\* the first read (requestData) to the serialized response.  outcome is
\*   "malformed"  the loop is left without a response (line 169),
\*   "throw"      an exception leaves handle_client (std::stoull, std::stoul),
\*   "respond"    a response was built.
Exchange(requestData, rest, k) ==
    IF Find(requestData, HTTP_DELIM, 0) = Npos
    THEN [NoExchange EXCEPT !.outcome = "malformed", !.request = requestData]
    ELSE Parsed(requestData, rest, k, Find(requestData, HTTP_DELIM, 0),
                SplitRequestLine(requestData, Find(requestData, " ", 0)))

\* ------------------------------------------------------------- clients
\* The requests of the clients: [first, rest], the bytes the first read
\* returns and the body bytes that arrive later.
Msg(first, rest) == [first |-> first, rest |-> rest]
CoreMessages ==
    { Msg("GET /greet HTTP/1.1\r\nHost: h\r\n\r\n", ""),
      Msg("GET / HTTP/1.1\r\nConnection: close\r\n\r\n", ""),
      Msg("POST /chat HTTP/1.1\r\nContent-Length: x\r\n\r\n", "") }
SessionMessages ==
    { Msg("GET /greet HTTP/1.1\r\nHost: h\r\n\r\n", ""),
      Msg("GET /greet HTTP/1.1\r\nConnection: close\r\n\r\n", ""),
      Msg("GET /greet HTTP/1.1\r\nConnection: Close\r\n\r\n", ""),
      Msg("GET /greet HTTP/1.1\r\nConnection: CLOSE\r\n\r\n", ""),
      Msg("POST /chat HTTP/1.1\r\nContent-Length: 10485761\r\n\r\n", ""),
      Msg("POST /chat HTTP/1.1\r\nContent-Length: 10485760\r\n\r\n", "ab"),
      Msg("POST /chat HTTP/1.1\r\nContent-Length: 18446744073709551616\r\n\r\n", ""),
      Msg("POST /chat HTTP/1.1\r\nContent-Type: application/x-www-form-urlencoded\r\nContent-Length: 5\r\n\r\nm=%zz", "") }
\* A GET of `target`, and a POST of a form body to `target`.
Get(target) == Msg("GET " \o target \o " HTTP/1.1\r\nHost: h\r\n\r\n", "")
PostForm(target, len, body, rest) ==
    Msg("POST " \o target \o " HTTP/1.1\r\nContent-Type: " \o MIME_URLENCODED
        \o "\r\nContent-Length: " \o len \o "\r\n\r\n" \o body, rest)
\* Requests for every way through handle_client: routes and files under
\* several spellings of the target, traversal, form bodies, an oversized
\* body, and bytes that are no HTTP request.
RequestMessages ==
    { Get("/greet"), Get("/greet?name=Ann"), Get("/public/greet"), Get("/status"),
      Msg("GET /chat HTTP/1.1\r\nConnection: close\r\n\r\n", ""),
      Msg("POST /chat HTTP/1.1\r\nConnection: close\r\n\r\n", ""),
      Get(""), Get("/"), Get("/public"), Get("/public/"),
      Get("/style.css"), Get("/public/style.css"), Get("/public/public/style.css"),
      Get("/public/public"), Get("/nofile.txt"), Get("/public/nofile.txt"),
      Get("/../etc/passwd"), Get("/a/../index.html"), Get("/a..b"),
      PostForm("/chat", "18", "name=Ann+Lee&age=5", ""),
      PostForm("/greet", "25", "name=%41nn&x&name=Bob+%4a", ""),
      PostForm("/greet", "8", "name=50%", ""),
      PostForm("/greet", "9", "name=5%4a", ""),
      PostForm("/greet", "8", "name=5%4", ""),
      PostForm("/greet", "8", "name", "=Ann"),
      PostForm("/greet", "8", "name=AnnXYZ", ""),
      Msg("POST /chat HTTP/1.1\r\nContent-Length: 10485760\r\n\r\n", "ab"),
      Msg("POST /chat HTTP/1.1\r\nContent-Length: 10485761\r\n\r\n", ""),
      Msg("GET /greet HTTP/1.1\r\nHost: h\r\n", ""),
      Msg("garbage\r\n\r\n", ""),
      Msg("GET /greet\r\nHost: h\r\n\r\n", ""),
      \* the names of the headers read by handle_client, in the target and in
      \* the value of another header
      Msg("GET /greet HTTP/1.1\r\nX-Note: Content-Length: 10485761\r\n\r\n", ""),
      Msg("GET /greet?x=Content-Length:3 HTTP/1.1\r\nHost: h\r\n\r\n", "abc"),
      Msg("GET /greet HTTP/1.1\r\nX-Note: Connection: close\r\n\r\n", ""),
      Msg("GET /greet?x=Connection:close HTTP/1.1\r\nHost: h\r\n\r\n", "") }
AllMessages == CoreMessages \cup SessionMessages \cup RequestMessages
\* Exchange, evaluated once for every message and every amount of late body
\* bytes received.
ExchangeTable ==
    [m \in AllMessages |-> [k \in 0..Len(m.rest) |-> Exchange(m.first, m.rest, k)]]

\* A worker that takes the newest connection of the queue.
DequeueNewest(w) ==
    /\ client_socket' = [client_socket EXCEPT ![w] = task_queue[Len(task_queue)]]
    /\ task_queue' = SubSeq(task_queue, 1, Len(task_queue) - 1)
    /\ conn_obs' = [conn_obs EXCEPT ![fd_conn[task_queue[Len(task_queue)]]].dequeues = @ + 1,
                                    ![fd_conn[task_queue[Len(task_queue)]]].sessions = @ + 1,
                                    ![fd_conn[task_queue[Len(task_queue)]]].after_stop = stop_server]
    /\ wpc' = [wpc EXCEPT ![w] = "read"]

\* ------------------------------------------------------- worker_thread
\* Server.cpp:141-144  front(), pop(), and the call of handle_client
Dequeue(w) ==
    /\ client_socket' = [client_socket EXCEPT ![w] = Head(task_queue)]
    /\ task_queue' = Tail(task_queue)
    /\ conn_obs' = [conn_obs EXCEPT ![fd_conn[Head(task_queue)]].dequeues = @ + 1,
                                    ![fd_conn[Head(task_queue)]].sessions = @ + 1,
                                    ![fd_conn[Head(task_queue)]].after_stop = stop_server]
    /\ wpc' = [wpc EXCEPT ![w] = "read"]

\* A worker that returns as soon as shutdown is requested, whatever the queue
\* holds.
WorkerCheckExitOnStop(w) ==
    /\ ~terminated
    /\ wpc[w] = "check"
    /\ queue_mutex = NoThread
    /\ IF ~(task_queue # << >> \/ stop_server)
       THEN /\ queue_mutex' = {w}
            /\ wpc' = [wpc EXCEPT ![w] = "block"]
            /\ UNCHANGED << task_queue, client_socket, conn_obs >>
       ELSE IF stop_server
       THEN /\ wpc' = [wpc EXCEPT ![w] = "exited"]
            /\ UNCHANGED << queue_mutex, task_queue, client_socket, conn_obs >>
       ELSE /\ Dequeue(w)
            /\ UNCHANGED queue_mutex
    /\ UNCHANGED << server_fd, thread_count, thread_pool, cv_waiters, stop_server,
                    log_mutex, start_pc, new_socket, cur, joined, stop_pc, join_i,
                    join_end, stop_calls, cas_wins, fd_kind, fd_conn, nconn, reqs_left,
                    client_data, terminated >>

\* Server.cpp:129-143  The worker takes queue_mutex and evaluates the wait
\* predicate.  When it is false the worker still holds the mutex and is about
\* to block; when it is true the worker leaves the wait, and either returns
\* (shutdown and empty queue) or dequeues, releasing the mutex.
WorkerCheck(w) ==
    /\ ~terminated
    /\ wpc[w] = "check"
    /\ queue_mutex = NoThread
    /\ IF ~(task_queue # << >> \/ stop_server)
       THEN /\ queue_mutex' = {w}
            /\ wpc' = [wpc EXCEPT ![w] = "block"]
            /\ UNCHANGED << task_queue, client_socket, conn_obs >>
       ELSE IF stop_server /\ task_queue = << >>
       THEN /\ wpc' = [wpc EXCEPT ![w] = "exited"]
            /\ UNCHANGED << queue_mutex, task_queue, client_socket, conn_obs >>
       ELSE /\ Dequeue(w)
            /\ UNCHANGED queue_mutex
    /\ UNCHANGED << server_fd, thread_count, thread_pool, cv_waiters, stop_server,
                    log_mutex, start_pc, new_socket, cur, joined, stop_pc, join_i,
                    join_end, stop_calls, cas_wins, fd_kind, fd_conn, nconn, reqs_left,
                    client_data, terminated >>

\* Server.cpp:131  cv.wait releases the mutex and blocks, atomically.
WorkerBlock(w) ==
    /\ ~terminated
    /\ wpc[w] = "block"
    /\ queue_mutex' = NoThread
    /\ cv_waiters' = cv_waiters \cup {w}
    /\ wpc' = [wpc EXCEPT ![w] = "waiting"]
    /\ UNCHANGED << server_fd, thread_count, thread_pool, task_queue, stop_server,
                    log_mutex, start_pc, new_socket, client_socket, cur, joined, stop_pc,
                    join_i, join_end, stop_calls, cas_wins, fd_kind, fd_conn, nconn,
                    reqs_left, client_data, terminated, conn_obs >>

\* A condition variable may wake a waiter without a notification.
SpuriousWakeup(w) ==
    /\ ~terminated
    /\ w \in cv_waiters
    /\ cv_waiters' = cv_waiters \ {w}
    /\ wpc' = [wpc EXCEPT ![w] = "check"]
    /\ UNCHANGED << server_fd, thread_count, thread_pool, task_queue, queue_mutex,
                    stop_server, log_mutex, start_pc, new_socket, client_socket, cur,
                    joined, stop_pc, join_i, join_end, stop_calls, cas_wins, fd_kind,
                    fd_conn, nconn, reqs_left, client_data, terminated, conn_obs >>

\* ------------------------------------------------------- handle_client
\* What send() accepts of a response before it fails: nothing, half, or all.
SendCuts(raw) == {0, Len(raw) \div 2, Len(raw)}

\* Server.cpp:159-162  read returns <= 0: client closed, timeout or error.
HandleReadEnd(w) ==
    /\ ~terminated
    /\ wpc[w] = "read"
    /\ wpc' = [wpc EXCEPT ![w] = "close"]
    /\ UNCHANGED << server_fd, thread_count, thread_pool, task_queue, queue_mutex,
                    cv_waiters, stop_server, log_mutex, start_pc, new_socket,
                    client_socket, cur, joined, stop_pc, join_i, join_end, stop_calls,
                    cas_wins, fd_kind, fd_conn, nconn, reqs_left, client_data,
                    terminated, conn_obs >>

\* Server.cpp:159-268  read returns a client's bytes; the request is parsed,
\* its body read, the handler run and the response serialized.  Bytes arrive
\* only on a descriptor that refers to a connection.  An exception
\* leaves handle_client and worker_thread, the entry function of a std::thread:
\* std::terminate is called.
HandleRead(w) ==
    /\ ~terminated
    /\ wpc[w] = "read"
    /\ fd_conn[client_socket[w]] \in DOMAIN reqs_left
    /\ reqs_left[fd_conn[client_socket[w]]] > 0
    /\ \E m \in client_data : \E k \in 0..Len(m.rest) :
          /\ Len(m.first) <= MAX_READ_BUFFER
          /\ cur' = [cur EXCEPT ![w] = ExchangeTable[m][k]]
    /\ terminated' = (cur'[w].outcome = "throw")
    /\ wpc' = [wpc EXCEPT ![w] = CASE cur'[w].outcome = "respond" -> "send"
                                    [] cur'[w].outcome = "malformed" -> "close"
                                    [] cur'[w].outcome = "throw" -> "terminate"]
    /\ reqs_left' = [reqs_left EXCEPT ![fd_conn[client_socket[w]]] = @ - 1]
    /\ UNCHANGED << server_fd, thread_count, thread_pool, task_queue, queue_mutex,
                    cv_waiters, stop_server, log_mutex, start_pc, new_socket,
                    client_socket, joined, stop_pc, join_i, join_end, stop_calls,
                    cas_wins, fd_kind, fd_conn, nconn, client_data, conn_obs >>

\* Server.cpp:266-277  the send loop
HandleSend(w) ==
    /\ ~terminated
    /\ wpc[w] = "send"
    /\ \E n \in SendCuts(cur[w].raw) : cur' = [cur EXCEPT ![w].sent = n]
    /\ conn_obs' = [conn_obs EXCEPT ![fd_conn[client_socket[w]]].responses = @ + 1]
    /\ wpc' = [wpc EXCEPT ![w] = "log"]
    /\ UNCHANGED << server_fd, thread_count, thread_pool, task_queue, queue_mutex,
                    cv_waiters, stop_server, log_mutex, start_pc, new_socket,
                    client_socket, joined, stop_pc, join_i, join_end, stop_calls,
                    cas_wins, fd_kind, fd_conn, nconn, reqs_left, client_data,
                    terminated >>

\* log_request without waiting for log_mutex.
HandleLogLockUnguarded(w) ==
    /\ ~terminated
    /\ wpc[w] = "log"
    /\ log_mutex' = log_mutex \cup {w}
    /\ wpc' = [wpc EXCEPT ![w] = "logging"]
    /\ UNCHANGED << server_fd, thread_count, thread_pool, task_queue, queue_mutex,
                    cv_waiters, stop_server, start_pc, new_socket, client_socket, cur,
                    joined, stop_pc, join_i, join_end, stop_calls, cas_wins, fd_kind,
                    fd_conn, nconn, reqs_left, client_data, terminated, conn_obs >>

\* Server.cpp:279, 34  log_request takes log_mutex
HandleLogLock(w) ==
    /\ ~terminated
    /\ wpc[w] = "log"
    /\ log_mutex = NoThread
    /\ log_mutex' = {w}
    /\ wpc' = [wpc EXCEPT ![w] = "logging"]
    /\ UNCHANGED << server_fd, thread_count, thread_pool, task_queue, queue_mutex,
                    cv_waiters, stop_server, start_pc, new_socket, client_socket, cur,
                    joined, stop_pc, join_i, join_end, stop_calls, cas_wins, fd_kind,
                    fd_conn, nconn, reqs_left, client_data, terminated, conn_obs >>

\* Server.cpp:35-44, 282-285  the line is written, log_mutex released, and the
\* keep-alive loop continues or ends.
HandleLogUnlock(w) ==
    /\ ~terminated
    /\ wpc[w] = "logging"
    /\ log_mutex' = NoThread
    /\ conn_obs' = [conn_obs EXCEPT ![fd_conn[client_socket[w]]].logs = @ + 1]
    /\ wpc' = [wpc EXCEPT ![w] = IF cur[w].res.keep_alive THEN "read" ELSE "close"]
    /\ cur' = [cur EXCEPT ![w] = IF cur[w].res.keep_alive THEN NoExchange ELSE @]
    /\ UNCHANGED << server_fd, thread_count, thread_pool, task_queue, queue_mutex,
                    cv_waiters, stop_server, start_pc, new_socket, client_socket, joined,
                    stop_pc, join_i, join_end, stop_calls, cas_wins, fd_kind, fd_conn,
                    nconn, reqs_left, client_data, terminated >>

\* Server.cpp:289  close(client_socket); handle_client returns to the worker loop.
HandleClose(w) ==
    /\ ~terminated
    /\ wpc[w] = "close"
    /\ fd_kind' = CloseKind(client_socket[w])
    /\ fd_conn' = CloseConn(client_socket[w])
    /\ conn_obs' = CloseObs(client_socket[w], "worker")
    /\ client_socket' = [client_socket EXCEPT ![w] = -1]
    /\ cur' = [cur EXCEPT ![w] = NoExchange]
    /\ wpc' = [wpc EXCEPT ![w] = "check"]
    /\ UNCHANGED << server_fd, thread_count, thread_pool, task_queue, queue_mutex,
                    cv_waiters, stop_server, log_mutex, start_pc, new_socket, joined,
                    stop_pc, join_i, join_end, stop_calls, cas_wins, nconn, reqs_left,
                    client_data, terminated >>

\* --------------------------------------------------------------- stop()
\* The external thread calls stop() (at any time, any number of times up to
\* the bound).
StopCall ==
    /\ ~terminated
    /\ stop_pc[ExtT] \in {"idle", "done", "stopped"}
    /\ stop_calls < MaxStopCalls
    /\ stop_calls' = stop_calls + 1
    /\ stop_pc' = [stop_pc EXCEPT ![ExtT] = "cas"]
    /\ UNCHANGED << server_fd, thread_count, thread_pool, task_queue, queue_mutex,
                    cv_waiters, stop_server, log_mutex, start_pc, new_socket, wpc,
                    client_socket, cur, joined, join_i, join_end, cas_wins, fd_kind,
                    fd_conn, nconn, reqs_left, client_data, terminated, conn_obs >>

\* Fault: a plain store instead of the compare-and-swap; every call goes on.
StopCasAlways(t) ==
    /\ ~terminated
    /\ stop_pc[t] = "cas"
    /\ stop_server' = TRUE
    /\ cas_wins' = cas_wins + 1
    /\ stop_pc' = [stop_pc EXCEPT ![t] = "close"]
    /\ UNCHANGED << server_fd, thread_count, thread_pool, task_queue, queue_mutex,
                    cv_waiters, log_mutex, start_pc, new_socket, wpc, client_socket, cur,
                    joined, join_i, join_end, stop_calls, fd_kind, fd_conn, nconn,
                    reqs_left, client_data, terminated, conn_obs >>

\* Server.cpp:334-338  compare_exchange_strong(expected = false, true)
StopCas(t) ==
    /\ ~terminated
    /\ stop_pc[t] = "cas"
    /\ IF stop_server
       THEN /\ stop_pc' = [stop_pc EXCEPT ![t] = "done"]
            /\ UNCHANGED << stop_server, cas_wins >>
       ELSE /\ stop_server' = TRUE
            /\ cas_wins' = cas_wins + 1
            /\ stop_pc' = [stop_pc EXCEPT ![t] = "close"]
    /\ UNCHANGED << server_fd, thread_count, thread_pool, task_queue, queue_mutex,
                    cv_waiters, log_mutex, start_pc, new_socket, wpc, client_socket, cur,
                    joined, join_i, join_end, stop_calls, fd_kind, fd_conn, nconn,
                    reqs_left, client_data, terminated, conn_obs >>

\* Server.cpp:343-347  close the listening descriptor
StopClose(t) ==
    /\ ~terminated
    /\ stop_pc[t] = "close"
    /\ IF server_fd >= 0
       THEN /\ fd_kind' = CloseKind(server_fd)
            /\ fd_conn' = CloseConn(server_fd)
            /\ conn_obs' = CloseObs(server_fd, "stop")
            /\ server_fd' = -1
       ELSE UNCHANGED << fd_kind, fd_conn, conn_obs, server_fd >>
    /\ stop_pc' = [stop_pc EXCEPT ![t] = "notify"]
    /\ UNCHANGED << thread_count, thread_pool, task_queue, queue_mutex, cv_waiters,
                    stop_server, log_mutex, start_pc, new_socket, wpc, client_socket,
                    cur, joined, join_i, join_end, stop_calls, cas_wins, nconn,
                    reqs_left, client_data, terminated >>

\* Server.cpp:350-353  cv.notify_all(), then the range-for takes begin/end
StopNotify(t) ==
    /\ ~terminated
    /\ stop_pc[t] = "notify"
    /\ cv_waiters' = {}
    /\ wpc' = [w \in Workers |-> IF w \in cv_waiters THEN "check" ELSE wpc[w]]
    /\ join_i' = [join_i EXCEPT ![t] = 1]
    /\ join_end' = [join_end EXCEPT ![t] = Len(thread_pool)]
    /\ stop_pc' = [stop_pc EXCEPT ![t] = "join"]
    /\ UNCHANGED << server_fd, thread_count, thread_pool, task_queue, queue_mutex,
                    stop_server, log_mutex, start_pc, new_socket, client_socket, cur,
                    joined, stop_calls, cas_wins, fd_kind, fd_conn, nconn, reqs_left,
                    client_data, terminated, conn_obs >>

\* Server.cpp:353-359  one iteration of the join loop: a joinable worker is
\* joined once it has returned.  When start() appended to thread_pool after
\* the range-for took its iterators, they dangle: joinable() read through
\* them may also be false, and the element is skipped.
StopJoin(t) ==
    /\ ~terminated
    /\ stop_pc[t] = "join"
    /\ join_i[t] <= join_end[t]
    /\ \/ /\ thread_pool[join_i[t]] \in joined \/ wpc[thread_pool[join_i[t]]] = "exited"
          /\ joined' = joined \cup {thread_pool[join_i[t]]}
       \/ /\ Len(thread_pool) > join_end[t]
          /\ joined' = joined
    /\ join_i' = [join_i EXCEPT ![t] = @ + 1]
    /\ UNCHANGED << server_fd, thread_count, thread_pool, task_queue, queue_mutex,
                    cv_waiters, stop_server, log_mutex, start_pc, new_socket, wpc,
                    client_socket, cur, stop_pc, join_end, stop_calls, cas_wins, fd_kind,
                    fd_conn, nconn, reqs_left, client_data, terminated, conn_obs >>

\* Fault: the queue is drained without waiting for the joins.
StopDrainBeforeJoin(t) ==
    /\ ~terminated
    /\ stop_pc[t] = "join"
    /\ queue_mutex = NoThread
    /\ queue_mutex' = {t}
    /\ stop_pc' = [stop_pc EXCEPT ![t] = "drain"]
    /\ UNCHANGED << server_fd, thread_count, thread_pool, task_queue, cv_waiters,
                    stop_server, log_mutex, start_pc, new_socket, wpc, client_socket,
                    cur, joined, join_i, join_end, stop_calls, cas_wins, fd_kind,
                    fd_conn, nconn, reqs_left, client_data, terminated, conn_obs >>

\* Server.cpp:362  the loop is over; lock_guard takes queue_mutex
StopDrainLock(t) ==
    /\ ~terminated
    /\ stop_pc[t] = "join"
    /\ join_i[t] > join_end[t]
    /\ queue_mutex = NoThread
    /\ queue_mutex' = {t}
    /\ stop_pc' = [stop_pc EXCEPT ![t] = "drain"]
    /\ UNCHANGED << server_fd, thread_count, thread_pool, task_queue, cv_waiters,
                    stop_server, log_mutex, start_pc, new_socket, wpc, client_socket,
                    cur, joined, join_i, join_end, stop_calls, cas_wins, fd_kind,
                    fd_conn, nconn, reqs_left, client_data, terminated, conn_obs >>

\* Fault: the drain closes the front descriptor and leaves it in the queue.
StopDrainCloseOnly(t) ==
    /\ ~terminated
    /\ stop_pc[t] = "drain"
    /\ task_queue # << >>
    /\ fd_kind[Head(task_queue)] = "conn"
    /\ fd_kind' = CloseKind(Head(task_queue))
    /\ fd_conn' = CloseConn(Head(task_queue))
    /\ conn_obs' = CloseObs(Head(task_queue), "drain")
    /\ UNCHANGED << server_fd, thread_count, thread_pool, task_queue, queue_mutex,
                    cv_waiters, stop_server, log_mutex, start_pc, new_socket, wpc,
                    client_socket, cur, joined, stop_pc, join_i, join_end, stop_calls,
                    cas_wins, nconn, reqs_left, client_data, terminated >>

\* Server.cpp:363-367  close(task_queue.front()); task_queue.pop()
StopDrainOne(t) ==
    /\ ~terminated
    /\ stop_pc[t] = "drain"
    /\ task_queue # << >>
    /\ fd_kind' = CloseKind(Head(task_queue))
    /\ fd_conn' = CloseConn(Head(task_queue))
    /\ conn_obs' = CloseObs(Head(task_queue), "drain")
    /\ task_queue' = Tail(task_queue)
    /\ UNCHANGED << server_fd, thread_count, thread_pool, queue_mutex, cv_waiters,
                    stop_server, log_mutex, start_pc, new_socket, wpc, client_socket,
                    cur, joined, stop_pc, join_i, join_end, stop_calls, cas_wins, nconn,
                    reqs_left, client_data, terminated >>

\* Server.cpp:369-370  the queue is empty: stop() returns at the end of its
\* body ("stopped"; a call that lost the compare-and-swap is "done"),
\* releasing the mutex
StopReturn(t) ==
    /\ ~terminated
    /\ stop_pc[t] = "drain"
    /\ task_queue = << >>
    /\ queue_mutex' = NoThread
    /\ stop_pc' = [stop_pc EXCEPT ![t] = "stopped"]
    /\ UNCHANGED << server_fd, thread_count, thread_pool, task_queue, cv_waiters,
                    stop_server, log_mutex, start_pc, new_socket, wpc, client_socket,
                    cur, joined, join_i, join_end, stop_calls, cas_wins, fd_kind,
                    fd_conn, nconn, reqs_left, client_data, terminated, conn_obs >>

\* ------------------------------------------------------- specification
\* The state after HttpServer's constructor (Server.cpp:46-51).
InitServer ==
    /\ server_fd = -1
    /\ thread_pool = << >>
    /\ task_queue = << >>
    /\ queue_mutex = NoThread
    /\ cv_waiters = {}
    /\ stop_server = FALSE
    /\ log_mutex = NoThread
    /\ start_pc = "socket"
    /\ new_socket = -1
    /\ wpc = [w \in Workers |-> "unborn"]
    /\ client_socket = [w \in Workers |-> -1]
    /\ cur = [w \in Workers |-> NoExchange]
    /\ joined = {}
    /\ stop_pc = [t \in StopCallers |-> "idle"]
    /\ join_i = [t \in StopCallers |-> 0]
    /\ join_end = [t \in StopCallers |-> 0]
    /\ stop_calls = 0
    /\ cas_wins = 0
    /\ fd_kind = [f \in Fds |-> "free"]
    /\ fd_conn = [f \in Fds |-> 0]
    /\ nconn = 0
    /\ terminated = FALSE
    /\ conn_obs = [c \in Conns |-> NoObs]

\* The server of main.cpp:264-286 with NumWorkers workers; MaxConns clients
\* connect, each sends up to MaxReqs requests.
Init ==
    /\ InitServer
    /\ thread_count = NumWorkers
    /\ reqs_left = [c \in Conns |-> MaxReqs]
    /\ client_data = CoreMessages

\* A server with one worker, whose clients send SessionMessages.
SessionInit ==
    /\ InitServer
    /\ thread_count = 1
    /\ reqs_left = [c \in Conns |-> MaxReqs]
    /\ client_data = SessionMessages

\* A server with one worker and one client, which sends one request.
FairInit ==
    /\ InitServer
    /\ thread_count = 1
    /\ reqs_left = [c \in {1} |-> 1]
    /\ client_data = {Msg("GET / HTTP/1.1\r\nConnection: close\r\n\r\n", "")}

\* A server with one worker and one client, which sends RequestMessages.
RequestInit ==
    /\ InitServer
    /\ thread_count = 1
    /\ reqs_left = [c \in {1} |-> MaxReqs]
    /\ client_data = RequestMessages

\* The pool of NumWorkers workers; MaxConns clients connect, each sends one
\* request.
PoolInit ==
    /\ InitServer
    /\ thread_count = NumWorkers
    /\ reqs_left = [c \in Conns |-> 1]
    /\ client_data = {Msg("GET / HTTP/1.1\r\nConnection: close\r\n\r\n", "")}

StartStep ==
    \/ StartSocket \/ StartBind \/ StartListen \/ StartSpawn \/ StartLoop
    \/ StartAcceptOk \/ StartAcceptFail \/ StartPush \/ StartNotify \/ Destructor

WorkerStep(w) ==
    \/ WorkerCheck(w) \/ WorkerBlock(w)
    \/ HandleReadEnd(w) \/ HandleRead(w) \/ HandleSend(w)
    \/ HandleLogLock(w) \/ HandleLogUnlock(w) \/ HandleClose(w)

StopStep(t) ==
    \/ StopCas(t) \/ StopClose(t) \/ StopNotify(t) \/ StopJoin(t)
    \/ StopDrainLock(t) \/ StopDrainOne(t) \/ StopReturn(t)

Next ==
    \/ StartSocket \/ StartBind \/ StartListen \/ StartSpawn \/ StartLoop
    \/ StartAcceptOk \/ StartAcceptFail \/ StartPush \/ StartNotify \/ Destructor
    \/ \E w \in Workers : WorkerCheck(w)
    \/ \E w \in Workers : WorkerBlock(w)
    \/ \E w \in Workers : SpuriousWakeup(w)
    \/ \E w \in Workers : HandleReadEnd(w)
    \/ \E w \in Workers : HandleRead(w)
    \/ \E w \in Workers : HandleSend(w)
    \/ \E w \in Workers : HandleLogLock(w)
    \/ \E w \in Workers : HandleLogUnlock(w)
    \/ \E w \in Workers : HandleClose(w)
    \/ StopCall
    \/ \E t \in StopCallers : StopCas(t)
    \/ \E t \in StopCallers : StopClose(t)
    \/ \E t \in StopCallers : StopNotify(t)
    \/ \E t \in StopCallers : StopJoin(t)
    \/ \E t \in StopCallers : StopDrainLock(t)
    \/ \E t \in StopCallers : StopDrainOne(t)
    \/ \E t \in StopCallers : StopReturn(t)

Spec == Init /\ [][Next]_vars

SessionSpec == SessionInit /\ [][Next]_vars

RequestSpec == RequestInit /\ [][Next]_vars

\* Every thread that can take a step eventually takes one.  Nothing obliges
\* a client to connect, a condition variable to wake spuriously, or another
\* thread to call stop().
Fairness ==
    /\ WF_vars(StartStep)
    /\ \A w \in Workers : WF_vars(WorkerStep(w))
    /\ \A t \in StopCallers : WF_vars(StopStep(t))

FairSpec == FairInit /\ [][Next]_vars /\ Fairness

PoolFairSpec == PoolInit /\ [][Next]_vars /\ Fairness

\* ------------------------------------------------------------ properties
Accepted == 1..nconn
InSession(w) == wpc[w] \in {"read", "send", "log", "logging", "close", "terminate"}
Responding(w) == wpc[w] \in {"send", "log", "logging"}
ShutdownPcs == {"close", "notify", "join", "drain"}
ListenerClosed == \A f \in Fds : fd_kind[f] \notin {"sock", "bound", "listen"}
WorkersJoined == \A w \in Workers : wpc[w] # "unborn" => (wpc[w] = "exited" /\ w \in joined)
\* start() has returned, every stop() call has returned, one of them did the
\* shutdown, and no worker is running.
ServerStopped ==
    /\ ~terminated
    /\ start_pc \in {"returned", "dtor"}
    /\ cas_wins = 1
    /\ \A t \in StopCallers : stop_pc[t] \in {"idle", "done", "stopped"}
    /\ \E t \in StopCallers : stop_pc[t] = "stopped"
    /\ \A w \in Workers : wpc[w] \in {"unborn", "exited"}

RECURSIVE LowerStr(_)
LowerStr(s) == IF s = "" THEN "" ELSE ToLower(CharAt(s, 0)) \o LowerStr(SubstrFrom(s, 1))
AllDigits(s) == s # "" /\ \A i \in 0..(Len(s) - 1) : IsDigit(CharAt(s, i))
\* the declared Content-Length of an exchange is a number above / at most
\* MAX_PAYLOAD_SIZE
DeclaredOver(x) ==
    AllDigits(x.content_len_str) /\ DigitsGreater(StripZeros(x.content_len_str), MaxPayloadDigits)
DeclaredAtMost(x) ==
    AllDigits(x.content_len_str) /\ ~DigitsGreater(StripZeros(x.content_len_str), MaxPayloadDigits)

\* C1: every accepted connection is closed exactly once: no connection is
\* ever closed twice, and once the server has stopped (start() and the stop()
\* that did the shutdown have returned, no worker runs) every accepted
\* connection has been closed, none is left open in the queue or elsewhere.
C1_ClosedExactlyOnce ==
    /\ \A c \in Conns : conn_obs[c].closes <= 1
    /\ ServerStopped => \A c \in Accepted : conn_obs[c].closes = 1

\* C2: after stop() has been invoked it eventually returns, for every caller
\* and every interleaving with the workers, under fair scheduling.
C2_StopReturns ==
    \A t \in StopCallers : (stop_pc[t] = "cas") ~> (stop_pc[t] \in {"done", "stopped"})

C4_OneWorkerPerConnection ==
    /\ \A c \in Conns : conn_obs[c].dequeues <= 1 /\ conn_obs[c].sessions <= 1
    /\ \A w1, w2 \in Workers :
          (w1 # w2 /\ InSession(w1) /\ InSession(w2)) => client_socket[w1] # client_socket[w2]
    /\ \A w \in Workers :
          InSession(w) => /\ client_socket[w] \in Fds
                          /\ fd_kind[client_socket[w]] = "conn"
                          /\ conn_obs[fd_conn[client_socket[w]]].dequeues = 1

\* two workers are in sessions at once, one of them answering the second
\* request of its keep-alive connection
C4_TwoSessions ==
    /\ \A w \in Workers : InSession(w)
    /\ \E w \in Workers : Responding(w) /\ conn_obs[fd_conn[client_socket[w]]].responses = 1

\* C5: the queue holds each handle at most once, and only handles of open
\* connections that were never dequeued, never closed and are owned by no worker.
C5_QueueHandles ==
    /\ \A i, j \in 1..Len(task_queue) : i # j => task_queue[i] # task_queue[j]
    /\ \A i \in 1..Len(task_queue) :
          /\ task_queue[i] \in Fds
          /\ fd_kind[task_queue[i]] = "conn"
          /\ fd_conn[task_queue[i]] \in Accepted
          /\ conn_obs[fd_conn[task_queue[i]]].dequeues = 0
          /\ conn_obs[fd_conn[task_queue[i]]].closes = 0
          /\ \A w \in Workers : InSession(w) => client_socket[w] # task_queue[i]

\* the queue holds the second connection under descriptor 4, the number the
\* first connection (accepted while the listener held 3, and closed by now) had
C5_ReusedDescriptorQueued ==
    /\ task_queue = << 4 >>
    /\ fd_conn[4] = 2
    /\ conn_obs[1].closes = 1
    /\ conn_obs[1].dequeues = 1

\* C6: among all stop() calls exactly one wins the compare-and-swap and does
\* the shutdown steps; no other call is ever inside them, and a call that has
\* returned implies that one call won.
C6_StopIdempotent ==
    /\ cas_wins <= 1
    /\ Cardinality({t \in StopCallers : stop_pc[t] \in ShutdownPcs \cup {"stopped"}}) <= 1
    /\ (\E t \in StopCallers : stop_pc[t] \in ShutdownPcs \cup {"done", "stopped"}) => cas_wins = 1
    /\ (\E t \in StopCallers : stop_pc[t] \in ShutdownPcs) => (stop_server /\ cas_wins = 1)
    /\ joined # {} \/ (\E c \in Conns : conn_obs[c].closed_by = "drain") => cas_wins = 1

\* the external thread called stop() twice and the destructor once; all
\* three calls have returned
C6_ThreeCallsReturned ==
    /\ stop_calls = 2
    /\ stop_pc[ExtT] \in {"done", "stopped"}
    /\ stop_pc[MainT] \in {"done", "stopped"}

\* C7: when the stop() call that does the shutdown returns, the listening
\* socket is closed, every worker thread has exited and been joined, and the
\* task queue is empty.
C7_StopPostcondition ==
    [][\A t \in StopCallers :
          (stop_pc[t] = "drain" /\ stop_pc'[t] = "stopped")
              => (ListenerClosed /\ WorkersJoined /\ task_queue = << >>)']_vars

\* C8: whatever bytes a client sends, the effect stays within its session:
\* the process (the other sessions, the pool, the acceptor) keeps running.
C8_ErrorsContained ==
    ~terminated

\* C9: a request that declares a Content-Length above MAX_PAYLOAD_SIZE is
\* answered 413, without a further read, without a handler or the static
\* resolver, and with keep-alive off; a request that declares a length of at
\* most MAX_PAYLOAD_SIZE is never answered 413.
C9_PayloadLimit ==
    \A w \in Workers :
        /\ DeclaredOver(cur[w]) =>
              /\ cur[w].outcome = "respond"
              /\ cur[w].res.status_code = 413
              /\ cur[w].extra_reads = 0
              /\ cur[w].dispatch = "none"
              /\ ~cur[w].res.keep_alive
        /\ DeclaredAtMost(cur[w]) => cur[w].res.status_code # 413

\* C10: a request whose Connection header contains "close" in any letter
\* case is answered with keep-alive off: the response carries
\* "Connection: close", and the session closes the socket after it.
C10_CloseAnyCase ==
    \A w \in Workers :
        (Responding(w) /\ Contains(LowerStr(cur[w].conn_header), "close")) =>
            /\ ~cur[w].res.keep_alive
            /\ Contains(cur[w].raw, "Connection: close\r\n")

\* C11: the keep-alive flag of every response the session sends is the
\* request's flag whatever the handler left in the response, except that it
\* is false for every status code >= 400; and a worker that has built a
\* response with status >= 400 never goes back to read on that connection.
C11_KeepAliveFinalized ==
    /\ [](\A w \in Workers : Responding(w) =>
            /\ cur[w].res.status_code < 400 => cur[w].res.keep_alive = cur[w].req_keep_alive
            /\ cur[w].res.status_code >= 400 => ~cur[w].res.keep_alive)
    /\ [][\A w \in Workers :
            (cur[w].outcome = "respond" /\ cur[w].res.status_code >= 400) => wpc'[w] # "read"]_vars
\* A 404 for a request that asked for keep-alive (the resolver left the flag
\* true as well) has been sent and logged; the client has another request to
\* send, and the worker is about to close.
C11_ErrorClosesKeepAlive ==
    \E w \in Workers :
        /\ wpc[w] = "close" /\ cur[w].outcome = "respond"
        /\ cur[w].res.status_code = 404 /\ cur[w].req_keep_alive /\ cur[w].built.keep_alive
        /\ cur[w].sent = Len(cur[w].raw)
        /\ reqs_left[fd_conn[client_socket[w]]] > 0

\* the exchange went through dispatch (Server.cpp:227): a response was built
\* and it is not the 413 of an oversized declared length
Dispatched(x) == x.outcome = "respond" /\ ~DeclaredOver(x)

\* C12: for every request that reaches dispatch exactly one call is made: when
\* the normalized path is a key of the route table, one call of that route's
\* handler (whose response is the one finalized) and no call of the static
\* resolver, which opens no file; otherwise one call of the static resolver
\* and no call of a handler.  A request that does not reach dispatch makes
\* neither call.
C12_ExactlyOneDispatch ==
    \A w \in Workers :
        /\ Dispatched(cur[w]) =>
              IF cur[w].path \in Routes
              THEN /\ cur[w].handler_calls = 1 /\ cur[w].static_calls = 0
                   /\ cur[w].dispatch = "route" /\ ~cur[w].opened
                   /\ cur[w].built = RouteHandler([path |-> cur[w].path, params |-> cur[w].params,
                                                   method |-> cur[w].method])
              ELSE /\ cur[w].handler_calls = 0 /\ cur[w].static_calls = 1
                   /\ cur[w].dispatch = "static"
                   /\ cur[w].built = handle_static_file(cur[w].path).res
        /\ ~Dispatched(cur[w]) => cur[w].handler_calls = 0 /\ cur[w].static_calls = 0
\* The target /public/greet was normalized to the route key greet, the greet
\* handler was called once, and its response has been sent in full.
C12_RouteHitSent ==
    \E w \in Workers :
        /\ wpc[w] = "log" /\ cur[w].request = Get("/public/greet").first
        /\ cur[w].path = "greet" /\ cur[w].handler_calls = 1 /\ cur[w].static_calls = 0
        /\ cur[w].sent = Len(cur[w].raw)

\* The serialized response as a client reads it: the status line and header
\* lines up to and including the line end before the blank line, and the
\* bytes after the blank line.
SerializedHead(raw) == Substr(raw, 0, Find(raw, HTTP_DELIM, 0) + 2)
SerializedBody(raw) == SubstrFrom(raw, Find(raw, HTTP_DELIM, 0) + 4)

\* C13: the response that is serialized differs from the response the handler
\* (or the resolver, or the 413 branch) returned in nothing but keep_alive,
\* and the bytes carry it verbatim: the status line is the status code and
\* text, the Content-Type line is the content type, every additional header
\* is a line "name: value", and the bytes after the blank line are the body.
C13_OnlyKeepAliveChanges ==
    \A w \in Workers : cur[w].outcome = "respond" =>
        /\ [cur[w].res EXCEPT !.keep_alive = cur[w].built.keep_alive] = cur[w].built
        /\ Find(cur[w].raw, HTTP_DELIM, 0) # Npos
        /\ MatchAt(SerializedHead(cur[w].raw),
                   "HTTP/1.1 " \o ToString(cur[w].built.status_code) \o " "
                       \o cur[w].built.status_text \o "\r\n", 0)
        /\ Contains(SerializedHead(cur[w].raw),
                    "\r\nContent-Type: " \o cur[w].built.content_type \o "\r\n")
        /\ \A h \in DOMAIN cur[w].built.headers :
              Contains(SerializedHead(cur[w].raw),
                       "\r\n" \o h \o ": " \o cur[w].built.headers[h] \o "\r\n")
        /\ SerializedBody(cur[w].raw) = cur[w].built.body
\* The redirect of the chat handler for a POST with Connection: close has been
\* sent: the handler left keep_alive true, the finalized response has it
\* false, and the bytes carry the handler's Location header.
C13_RedirectSentVerbatim ==
    \E w \in Workers :
        /\ wpc[w] = "log" /\ cur[w].sent = Len(cur[w].raw)
        /\ cur[w].built.status_code = 303 /\ cur[w].built.keep_alive /\ ~cur[w].res.keep_alive
        /\ "Location" \in DOMAIN cur[w].built.headers
        /\ Contains(cur[w].raw, "\r\nLocation: /chat\r\n")
        /\ Contains(cur[w].raw, "\r\nConnection: close\r\n")

\* the first line of a request, and whether two spaces split it into method,
\* target and version
RequestLine(r) == Substr(r, 0, Find(r, "\r\n", 0))
SplitsInThree(line) ==
    /\ Find(line, " ", 0) # Npos
    /\ Find(line, " ", Find(line, " ", 0) + 1) # Npos
\* the bytes of a first read that are a protocol malformation
Malformation(r) == Find(r, HTTP_DELIM, 0) = Npos \/ ~SplitsInThree(RequestLine(r))

C15_ContentLengthIsBodyLength ==
    \A w \in Workers : cur[w].outcome = "respond" =>
        /\ Contains(SerializedHead(cur[w].raw),
                    "\r\nContent-Length: " \o ToString(Len(SerializedBody(cur[w].raw))) \o "\r\n")
        /\ Find(SerializedHead(cur[w].raw), "\r\nContent-Length:",
                Find(SerializedHead(cur[w].raw), "\r\nContent-Length:", 0) + 1) = Npos
        /\ Len(SerializedBody(cur[w].raw)) = Len(cur[w].res.body)
\* The 413 response, whose body has 23 bytes, has been sent in full with
\* Content-Length: 23.
C15_PayloadTooLargeSent ==
    \E w \in Workers :
        /\ wpc[w] = "log" /\ cur[w].sent = Len(cur[w].raw)
        /\ cur[w].res.status_code = 413
        /\ Len(SerializedBody(cur[w].raw)) = 23
        /\ Contains(cur[w].raw, "\r\nContent-Length: 23\r\n")

\* C16: a dispatched request whose normalized path contains ".." matches no
\* route; the static resolver is called, opens no file and returns 403,
\* whether or not the path would leave the asset root; the response sent is
\* that 403 with keep-alive off, so the connection is closed after it.
C16_TraversalForbidden ==
    \A w \in Workers : (Dispatched(cur[w]) /\ Contains(cur[w].path, "..")) =>
        /\ cur[w].handler_calls = 0 /\ cur[w].static_calls = 1
        /\ ~cur[w].opened
        /\ cur[w].res.status_code = 403 /\ MatchAt(cur[w].raw, "HTTP/1.1 403 Forbidden\r\n", 0)
        /\ ~cur[w].res.keep_alive
        /\ wpc[w] \in {"send", "log", "logging", "close"}
\* The target /a/../index.html, which stays inside the asset root, was
\* answered 403 without opening a file, and the worker is about to close the
\* connection although the client asked for keep-alive.
C16_InsideRootForbidden ==
    \E w \in Workers :
        /\ wpc[w] = "close" /\ cur[w].path = "a/../index.html"
        /\ cur[w].res.status_code = 403 /\ ~cur[w].opened
        /\ cur[w].req_keep_alive /\ cur[w].sent = Len(cur[w].raw)

\* C17: connections leave the queue in the order the acceptor pushed them
\* (the order of their numbers: the acceptor pushes each connection before it
\* accepts the next).  The queue holds them oldest first, and a connection
\* has been dequeued only if every connection pushed before it has been.
C17_FifoDequeue ==
    /\ \A i, j \in DOMAIN task_queue :
          i < j => fd_conn[task_queue[i]] < fd_conn[task_queue[j]]
    /\ \A a, b \in Accepted :
          (a < b /\ conn_obs[b].dequeues >= 1) => conn_obs[a].dequeues >= 1
\* Two connections were dequeued, by different workers; the session of the
\* second is over (its connection closed) while the first is still open.
C17_SecondFinishedFirst ==
    \E w1, w2 \in Workers :
        /\ w1 # w2
        /\ conn_obs[1].dequeues = 1 /\ conn_obs[2].dequeues = 1
        /\ wpc[w1] = "read" /\ fd_conn[client_socket[w1]] = 1 /\ conn_obs[1].closes = 0
        /\ wpc[w2] = "check" /\ conn_obs[2].closes = 1 /\ conn_obs[2].closed_by = "worker"

\* the workers inside the locked part of log_request
Logging == {w \in Workers : wpc[w] = "logging"}
\* the responses of connection c whose log line is still to be written
Unlogged(c) ==
    Cardinality({w \in Workers : wpc[w] \in {"log", "logging"} /\ fd_conn[client_socket[w]] = c})

\* C18: at most one worker is inside log_request's locked part, and it is the
\* holder of log_mutex; no thread holds log_mutex and queue_mutex together;
\* and for every connection the log lines written are the responses whose
\* write loop has run, less the one whose worker is between its write loop
\* and the end of log_request: one line per response, after the write loop.
C18_OneLogLinePerResponse ==
    /\ Cardinality(Logging) <= 1
    /\ log_mutex = Logging
    /\ log_mutex \cap queue_mutex = {}
    /\ \A w \in Logging : cur[w].outcome = "respond" /\ cur[w].sent \in SendCuts(cur[w].raw)
    /\ \A c \in Conns :
          /\ Unlogged(c) <= 1
          /\ conn_obs[c].responses = conn_obs[c].logs + Unlogged(c)
\* One worker writes the log line of its second response while the other,
\* whose write loop is over, waits for log_mutex.
C18_LogWhileOtherWaits ==
    \E w1, w2 \in Workers :
        /\ wpc[w1] = "logging" /\ wpc[w2] = "log" /\ log_mutex = {w1}
        /\ conn_obs[fd_conn[client_socket[w1]]].responses = 2
        /\ conn_obs[fd_conn[client_socket[w1]]].logs = 1
        /\ conn_obs[fd_conn[client_socket[w2]]].responses = 1
        /\ conn_obs[fd_conn[client_socket[w2]]].logs = 0

\* Percent/plus decoding as the interface describes it: '+' is a space, '%'
\* followed by two hexadecimal digits is the byte they spell, a '%' with
\* fewer than two characters after it stands for itself.  EscapesOk tells
\* that the description covers every '%' of s.
RECURSIVE EscapesOk(_)
EscapesOk(s) ==
    IF s = "" THEN TRUE
    ELSE IF CharAt(s, 0) = "%" /\ Len(s) >= 3
         THEN /\ IsHexDigit(CharAt(s, 1)) /\ IsHexDigit(CharAt(s, 2))
              /\ EscapesOk(SubstrFrom(s, 3))
    ELSE EscapesOk(SubstrFrom(s, 1))
RECURSIVE Unescaped(_)
Unescaped(s) ==
    IF s = "" THEN ""
    ELSE IF CharAt(s, 0) = "+" THEN " " \o Unescaped(SubstrFrom(s, 1))
    ELSE IF CharAt(s, 0) = "%" /\ Len(s) >= 3
         THEN ByteChar(16 * HexVal(CharAt(s, 1)) + HexVal(CharAt(s, 2)))
              \o Unescaped(SubstrFrom(s, 3))
    ELSE CharAt(s, 0) \o Unescaped(SubstrFrom(s, 1))
\* The mapping a form body describes: its '&'-separated segments that hold
\* an '=', taken from left to right, a later key replacing an earlier one.
RECURSIVE FormMapping(_, _)
FormMapping(body, acc) ==
    IF body = "" THEN acc
    ELSE LET amp == Find(body, "&", 0)
             seg == IF amp = Npos THEN body ELSE Substr(body, 0, amp)
             eq == Find(seg, "=", 0)
         IN FormMapping(IF amp = Npos THEN "" ELSE SubstrFrom(body, amp + 1),
                        IF eq = Npos THEN acc
                        ELSE MapPut(acc, Unescaped(Substr(seg, 0, eq)),
                                    Unescaped(SubstrFrom(seg, eq + 1))))
\* the exchange is a POST whose Content-Type header contains the form type
FormPost(x) ==
    /\ x.method = "POST"
    /\ Contains(extract_header_value(x.request, Find(x.request, HTTP_DELIM, 0), HDR_CONTENT_TYPE),
                MIME_URLENCODED)

\* C19: for a dispatched POST with a form Content-Type whose body's escapes
\* are all of the described kinds, the parameters the handler receives hold,
\* for every key=value segment of the body, decode(key) -> decode(value), a
\* later duplicate replacing an earlier one; and decoding a string with
\* neither '%' nor '+' returns the same string.
C19_FormParamsDecoded ==
    \A w \in Workers :
        /\ (Dispatched(cur[w]) /\ FormPost(cur[w]) /\ EscapesOk(cur[w].body)) =>
              \A key \in DOMAIN FormMapping(cur[w].body, NoParams) :
                  /\ key \in DOMAIN cur[w].params
                  /\ cur[w].params[key] = FormMapping(cur[w].body, NoParams)[key]
        /\ \A s \in {cur[w].path, cur[w].method, cur[w].conn_header} :
              (~Contains(s, "%") /\ ~Contains(s, "+")) => url_decode(s) = [err |-> "none", str |-> s]
\* The body name=%41nn&x&name=Bob+%4a was decoded to the single parameter
\* name -> "Bob J", and the greet handler's page for that name has been sent.
C19_DuplicateKeyDecoded ==
    \E w \in Workers :
        /\ wpc[w] = "log" /\ cur[w].sent = Len(cur[w].raw)
        /\ FormPost(cur[w]) /\ cur[w].body = "name=%41nn&x&name=Bob+%4a"
        /\ cur[w].params = MapPut(NoParams, "name", "Bob J")
        /\ cur[w].res.body = "<h1>Hello, Bob J!</h1>"

\* the target of a request's first line, and the request for the same target
\* under /public
TargetOf(r) == SplitRequestLine(r, Find(r, " ", 0)).rawUrl
UnderPublic(target) == Get("/public" \o target)
\* the exchange handled GET /p for some p, and clients also send GET /public/p
HasPublicTwin(x) ==
    /\ Dispatched(x)
    /\ MatchAt(TargetOf(x.request), "/", 0)
    /\ x.request = Get(TargetOf(x.request)).first
    /\ UnderPublic(TargetOf(x.request)) \in AllMessages
\* the routing key and the response built for GET /public/p are those of x
SameAsPublicTwin(x) ==
    /\ ExchangeTable[UnderPublic(TargetOf(x.request))][0].path = x.path
    /\ ExchangeTable[UnderPublic(TargetOf(x.request))][0].dispatch = x.dispatch
    /\ ExchangeTable[UnderPublic(TargetOf(x.request))][0].built = x.built

\* C20 as stated: the targets '', '/', '/public' and '/public/' get the
\* routing key index.html, and for every p the targets /p and /public/p get
\* the same routing key and the same lookup.
C20_AnyPathConverges ==
    \A w \in Workers : Dispatched(cur[w]) =>
        /\ TargetOf(cur[w].request) \in {"", "/", "/public", "/public/"} =>
              cur[w].path = DEFAULT_INDEX
        /\ HasPublicTwin(cur[w]) => SameAsPublicTwin(cur[w])

\* C20, amended: the targets '', '/', '/public' and '/public/' get the routing
\* key index.html, and the targets /p and /public/p get the same routing key
\* and the same lookup for every p whose path is not "public" or "/" and
\* does not itself begin with "public/" (the prefix is removed once).
C20_PublicPrefixConverges ==
    \A w \in Workers : Dispatched(cur[w]) =>
        /\ TargetOf(cur[w].request) \in {"", "/", "/public", "/public/"} =>
              cur[w].path = DEFAULT_INDEX
        /\ ( /\ HasPublicTwin(cur[w])
             /\ parse_url(TargetOf(cur[w].request)).path \notin {"public", "/"}
             /\ ~MatchAt(parse_url(TargetOf(cur[w].request)).path, PUBLIC_DIR, 0) )
           => SameAsPublicTwin(cur[w])
\* GET /nofile.txt was answered by the static resolver under the routing key
\* nofile.txt, which is also the key of GET /public/nofile.txt.
C20_TwinKeysAgree ==
    \E w \in Workers :
        /\ wpc[w] = "log" /\ cur[w].request = Get("/nofile.txt").first
        /\ HasPublicTwin(cur[w]) /\ cur[w].path = "nofile.txt"
        /\ ExchangeTable[Get("/public/nofile.txt")][0].path = "nofile.txt"
        /\ cur[w].static_calls = 1

\* the write loop of the exchange ended on a send that returned <= 0
SendFailed(x) == x.outcome = "respond" /\ x.sent < Len(x.raw)

\* C21: a worker whose write loop was ended by a failed send does not go back
\* to read another request from that connection, whatever the keep-alive
\* flag of the response: its next position is never the read.
C21_SendFailureCloses ==
    [][\A w \in Workers :
          (wpc[w] \in {"log", "logging"} /\ SendFailed(cur[w])) => wpc'[w] # "read"]_vars

\* C22: the session is the machine read -> (body) -> dispatch -> respond ->
\* loop-or-close.  A read ends in a response to send or, when it returns <= 0
\* bytes or the bytes are no request, in the close with no response built;
\* after the response is logged the worker reads again on the same socket if
\* and only if the finalized keep-alive flag is true and otherwise closes;
\* and the session is left only through the close of its socket.
C22_SessionStateMachine ==
    [][\A w \in Workers :
          /\ (wpc[w] = "read" /\ wpc'[w] # "read") =>
                /\ wpc'[w] \in {"send", "close"}
                /\ wpc'[w] = "close" => conn_obs' = conn_obs /\ cur'[w].outcome # "respond"
                /\ client_socket'[w] = client_socket[w]
          /\ (wpc[w] = "logging" /\ wpc'[w] # "logging") =>
                /\ wpc'[w] = (IF cur[w].res.keep_alive THEN "read" ELSE "close")
                /\ client_socket'[w] = client_socket[w]
          /\ (InSession(w) /\ wpc'[w] \notin {"read", "send", "log", "logging", "close"}) =>
                /\ wpc[w] = "close"
                /\ fd_kind[client_socket[w]] = "conn" /\ fd_kind'[client_socket[w]] = "free"
                /\ conn_obs'[fd_conn[client_socket[w]]].closes = 1]_vars

\* the body bytes of the exchange's first read, and its declared length
FirstBody(x) == SerializedBody(x.request)
Declared(x) == DigitsToInt(StripZeros(x.content_len_str))
\* the reads of the body loop that returned bytes
GoodReads(x) == x.extra_reads - (IF Len(x.body) < Declared(x) THEN 1 ELSE 0)

C24_WorkerLoop ==
    [][\A w \in Workers :
          /\ (wpc'[w] = "read" /\ wpc[w] \notin {"read", "logging"}) =>
                /\ wpc[w] = "check"
                /\ task_queue # << >>
                /\ client_socket'[w] = Head(task_queue)
                /\ task_queue' = Tail(task_queue)
          /\ (wpc[w] = "check" /\ wpc'[w] = "block") => (task_queue = << >> /\ ~stop_server)
          /\ (wpc'[w] = "exited" /\ wpc[w] # "exited") =>
                (wpc[w] = "check" /\ stop_server /\ task_queue = << >>)
          /\ (wpc[w] = "check" /\ wpc'[w] # "check" /\ stop_server /\ task_queue = << >>) =>
                wpc'[w] = "exited"
          /\ (wpc'[w] = "check" /\ wpc[w] # "check") =>
                wpc[w] \in {"unborn", "waiting", "close"}]_vars
\* Shutdown was requested while a connection was queued: a worker woke up,
\* dequeued it, ran its session and closed it, found the queue empty at its
\* next check and returned, as did every other worker.
C24_ServedThenExited ==
    /\ stop_server
    /\ \A w \in Workers : wpc[w] = "exited"
    /\ conn_obs[1].dequeues = 1 /\ conn_obs[1].after_stop
    /\ conn_obs[1].closed_by = "worker" /\ conn_obs[1].responses >= 1

\* connection c is in the queue
Queued(c) == \E i \in DOMAIN task_queue : fd_conn[task_queue[i]] = c

\* C25: under fair scheduling of the acceptor, the workers and the callers of
\* stop(), a connection that is in the queue is eventually dequeued by a
\* worker, unless shutdown is requested.
C25_EnqueuedEventuallyDequeued ==
    \A c \in Conns : Queued(c) ~> (conn_obs[c].dequeues >= 1 \/ stop_server)
\* Both connections were pushed while a worker was waiting and both have been
\* dequeued, with no shutdown requested.
C25_BothDequeued ==
    /\ ~stop_server /\ stop_calls = 0
    /\ conn_obs[1].dequeues = 1 /\ conn_obs[2].dequeues = 1
    /\ \E w \in Workers : wpc[w] = "read" /\ fd_conn[client_socket[w]] = 2
    /\ \E w \in Workers : wpc[w] = "waiting"

\* start() failed: it has returned without having created a worker
StartFailed == start_pc \in {"returned", "dtor"} /\ thread_pool = << >>
\* the stop() of the destructor has returned and no other stop() is running:
\* the members of the server object are about to be destroyed
Destroyed ==
    /\ start_pc = "dtor"
    /\ stop_pc[MainT] \in {"done", "stopped"}
    /\ \A t \in StopCallers : stop_pc[t] \in {"idle", "done", "stopped"}

\* C26: when start() has failed at socket() or bind(), no worker exists, no
\* connection was accepted or enqueued, and start() stays returned (it does
\* not retry); and once the stop() called after it has returned, no socket
\* descriptor created by start() is left open.
C26_FailedStartLeavesNothing ==
    /\ [](StartFailed =>
            /\ \A w \in Workers : wpc[w] = "unborn"
            /\ nconn = 0 /\ task_queue = << >>
            /\ \A f \in Fds : fd_kind[f] \notin {"bound", "listen", "conn"})
    /\ []((StartFailed /\ Destroyed) => ListenerClosed)
    /\ [][StartFailed => StartFailed']_vars

\* C27: when the server object is destroyed (the destructor's stop() has
\* returned, no other stop() is running), whatever the order of the stop()
\* and start() calls before, every worker that was created has returned and
\* been joined and the listening socket is closed.
C27_NothingLeftAtDestruction ==
    Destroyed => (ListenerClosed /\ WorkersJoined)

\* the header name `name` (with its colon) stands at the start of a line of
\* the header section of the request r, in any letter case
CiMatchAt(s, pat, i) ==
    /\ i + Len(pat) <= Len(s)
    /\ \A k \in 0..(Len(pat) - 1) : ci_char_compare(CharAt(s, i + k), CharAt(pat, k))
HasHeaderLine(r, name) ==
    \E i \in 2..(Find(r, HTTP_DELIM, 0) - 1) :
        MatchAt(r, "\r\n", i - 2) /\ CiMatchAt(r, name, i)

\* C28: a request without a Content-Length header line is not answered 413
\* and no read is issued for its body, and a request without a Connection
\* header line keeps the keep-alive flag of the request set, wherever else
\* in its head the texts 'Content-Length:' and 'Connection:' stand.
C28_DecisionsFromHeaderLines ==
    \A w \in Workers : cur[w].outcome \in {"respond", "throw"} =>
        /\ ~HasHeaderLine(cur[w].request, HDR_CONTENT_LEN) =>
              /\ cur[w].res.status_code # 413
              /\ cur[w].extra_reads = 0
        /\ ~HasHeaderLine(cur[w].request, HDR_CONNECTION) =>
              cur[w].req_keep_alive

====
